---- MODULE Spec2Model ----
(***************************************************************************)
(* Model of the A2A collaborator ("host") agent,                           *)
(* workshop-module-3/module-3/a2a/a2a-collaborator-agent/agent.py:         *)
(*   - HostAgent.stream            the dispatch gate in front of the       *)
(*                                 reasoning engine (agent.stream_async)   *)
(*   - HostAgent._send_message_impl the remote call invoker                *)
(*   - invoke / host_agent_task    the entry point and the producer task   *)
(*                                 feeding the streaming bridge            *)
(* Time is counted in whole seconds.  asyncio.sleep(d) returns at some     *)
(* moment not earlier than d seconds after it was called.                  *)
(***************************************************************************)
EXTENDS Integers, Sequences, FiniteSets, TLC

----------------------------------------------------------------------------
(* Bounds of the model *)

NumCallers == 3      \* concurrent calls of HostAgent.stream
MaxTime == 18        \* the clock of a single call stops advancing here
BurstMaxTime == 4    \* the clock of a burst of calls stops advancing here
MaxBurstCalls == 3   \* engine calls a burst is followed for
MaxEvents == 1       \* events the engine emits in one attempt

(* Program constants *)

SemaphoreCapacity == 2          \* Semaphore(2)
MinDelayBetweenCalls == 1       \* _min_delay_between_calls = 1.0
stream_max_retries_OneMore == 3 + 1
stream_max_retries == 3         \* max_retries = 3 in stream
stream_base_delay == 2          \* base_delay = 2.0 in stream
StartTime == 2                  \* time.time() when the host is constructed

Callers == 1..NumCallers

----------------------------------------------------------------------------
(* Error texts, as sequences of characters, and their classification *)

Str_Throttling == <<"T","h","r","o","t","t","l","i","n","g","E","x","c">>
Str_TooMany == <<"4","2","9"," ","T","o","o"," ","M","a","n","y"," ","R","e","q","u","e","s","t","s">>
Str_AccessDenied == <<"A","c","c","e","s","s","D","e","n","i","e","d">>
Str_Validation == <<"V","a","l","i","d","a","t","i","o","n","E","x","c">>

Needle_throttling == <<"t","h","r","o","t","t","l","i","n","g">>
Needle_too_many_requests == <<"t","o","o"," ","m","a","n","y"," ","r","e","q","u","e","s","t","s">>

Errors == {"Throttling", "TooMany", "AccessDenied", "Validation"}

ErrText(e) ==
    CASE e = "Throttling" -> Str_Throttling
      [] e = "TooMany" -> Str_TooMany
      [] e = "AccessDenied" -> Str_AccessDenied
      [] OTHER -> Str_Validation

UpperChars == <<"A","D","E","M","R","T","V">>
LowerChars == <<"a","d","e","m","r","t","v">>

LowerChar(ch) ==
    IF \E i \in 1..Len(UpperChars) : UpperChars[i] = ch
    THEN LowerChars[CHOOSE i \in 1..Len(UpperChars) : UpperChars[i] = ch]
    ELSE ch

\* str.lower()
Lower(s) == [i \in 1..Len(s) |-> LowerChar(s[i])]

\* needle in s
Contains(s, needle) ==
    \E k \in 0..(Len(s) - Len(needle)) :
        \A j \in 1..Len(needle) : s[k + j] = needle[j]

\* every error taken for throttling
IsThrottling_Always(e) == e \in Errors

\* "throttling" in error_str or "too many requests" in error_str
IsThrottling(e) ==
    \/ Contains(Lower(ErrText(e)), Needle_throttling)
    \/ Contains(Lower(ErrText(e)), Needle_too_many_requests)

RECURSIVE Pow2(_)
Pow2(n) == IF n <= 0 THEN 1 ELSE 2 * Pow2(n - 1)

\* a backoff that grows linearly: base_delay * retry_count
BackoffDelay_Linear(rc) == stream_base_delay * rc

\* base_delay * (2 ** (retry_count - 1))
BackoffDelay(rc) == stream_base_delay * Pow2(rc - 1)

----------------------------------------------------------------------------
VARIABLES
    now,                 \* time.time()
    sem,                 \* _bedrock_semaphore: free permits
    waiters,             \* _bedrock_semaphore: callers suspended in acquire, FIFO
    holders,             \* callers inside "async with self._bedrock_semaphore"
    last_api_call_time,  \* self._last_api_call_time
    pc,                  \* where each call of stream stands
    retry_count,         \* retry_count of each call
    wakeAt,              \* when the pending asyncio.sleep of each call may return
    events,              \* events the engine emitted in the current attempt: has each a "data" key
    out,                 \* the chunks each call of stream has yielded
    calls,               \* engine calls (agent.stream_async) each call has started
    waits,               \* backoff delays each call has slept
    outcomes             \* how each engine call of each call ended: "ok" or the error raised

gateVars == <<now, sem, waiters, holders, last_api_call_time, pc, retry_count,
              wakeAt, events, out, calls, waits, outcomes>>

Chunk(kind, err, n, m) == [kind |-> kind, err |-> err, n |-> n, m |-> m]

\* yield event["data"]
DataChunk(attempt, idx) == Chunk("data", "", attempt, idx)
\* yield "\n... Request throttled. Retrying in {backoff_delay}s... (attempt {retry_count}/{max_retries})\n"
RetryNotice(delay, rc) == Chunk("retry", "", delay, rc)
\* yield "Error: Request throttled after {max_retries} retries. ..."
ExhaustedNotice == Chunk("exhausted", "", stream_max_retries, 0)
\* yield f"Error: {e}"
ErrorNotice(e) == Chunk("error", e, 0, 0)

\* Data chunks of attempt a in the output o
DataCount(o, a) == Cardinality({i \in 1..Len(o) : o[i].kind = "data" /\ o[i].n = a})

InitGate ==
    /\ now = StartTime
    /\ sem = SemaphoreCapacity
    /\ waiters = <<>>
    /\ holders = {}
    /\ last_api_call_time = 0
    /\ pc = [c \in Callers |-> "idle"]
    /\ retry_count = [c \in Callers |-> 0]
    /\ wakeAt = [c \in Callers |-> 0]
    /\ events = [c \in Callers |-> <<>>]
    /\ out = [c \in Callers |-> <<>>]
    /\ calls = [c \in Callers |-> 0]
    /\ waits = [c \in Callers |-> <<>>]
    /\ outcomes = [c \in Callers |-> <<>>]

\* self.agent.stream_async(user_query) is entered by caller c
StartEngineCall(c) ==
    /\ pc' = [pc EXCEPT ![c] = "calling"]
    /\ calls' = [calls EXCEPT ![c] = @ + 1]
    /\ events' = [events EXCEPT ![c] = <<>>]

\* Lines 596-604, run without suspension once the permit is held: either the
\* spacing sleep starts, or the timestamp is written and the engine is called.
GateCheck(c) ==
    LET time_since_last_call == now - last_api_call_time IN
    IF time_since_last_call < MinDelayBetweenCalls
    THEN /\ pc' = [pc EXCEPT ![c] = "spacing"]
         /\ wakeAt' = [wakeAt EXCEPT ![c] =
                          now + (MinDelayBetweenCalls - time_since_last_call)]
         /\ UNCHANGED <<last_api_call_time, calls, events>>
    ELSE /\ last_api_call_time' = now
         /\ StartEngineCall(c)
         /\ UNCHANGED wakeAt

\* an acquire that never waits
CanAcquire_Always == TRUE

\* Semaphore.acquire as seen by a new caller
CanAcquire == sem > 0 /\ waiters = <<>>

\* async with self._bedrock_semaphore: (entry)
StreamEnter(c) ==
    /\ pc[c] = "idle"
    /\ \A d \in Callers : d < c => pc[d] # "idle"   \* callers are numbered as they arrive
    /\ IF CanAcquire
       THEN /\ sem' = sem - 1
            /\ holders' = holders \cup {c}
            /\ GateCheck(c)
            /\ UNCHANGED waiters
       ELSE /\ waiters' = Append(waiters, c)
            /\ pc' = [pc EXCEPT ![c] = "wait_permit"]
            /\ UNCHANGED <<sem, holders, last_api_call_time, wakeAt, calls, events>>
    /\ UNCHANGED <<now, retry_count, out, waits, outcomes>>

\* A waiter that was handed a permit resumes after the acquire
StreamResume(c) ==
    /\ pc[c] = "granted"
    /\ GateCheck(c)
    /\ UNCHANGED <<now, sem, waiters, holders, retry_count, out, waits, outcomes>>

\* await asyncio.sleep(delay) returns; self._last_api_call_time = time.time()
SpacingWake(c) ==
    /\ pc[c] = "spacing"
    /\ now >= wakeAt[c]
    /\ last_api_call_time' = now
    /\ StartEngineCall(c)
    /\ wakeAt' = [wakeAt EXCEPT ![c] = 0]
    /\ UNCHANGED <<now, sem, waiters, holders, retry_count, out, waits, outcomes>>

\* the call ends without giving its permit back
ReleaseAndFinish_NoRelease(c) ==
    /\ pc' = [pc EXCEPT ![c] = "done"]
    /\ UNCHANGED <<sem, waiters, holders>>

\* Semaphore.release at the exit of the async with block: the permit goes to
\* the first waiter, if there is one.  Gives sem', waiters', holders' and the
\* pc of caller c and of the woken waiter.
ReleaseAndFinish(c) ==
    IF waiters = <<>>
    THEN /\ sem' = sem + 1
         /\ holders' = holders \ {c}
         /\ pc' = [pc EXCEPT ![c] = "done"]
         /\ UNCHANGED waiters
    ELSE /\ sem' = sem
         /\ holders' = (holders \ {c}) \cup {Head(waiters)}
         /\ pc' = [pc EXCEPT ![c] = "done", ![Head(waiters)] = "granted"]
         /\ waiters' = Tail(waiters)

\* a loop that yields a chunk for every event of the engine
EngineEmits_ForwardAll(c, hasData, limit) ==
    /\ pc[c] = "calling"
    /\ Len(events[c]) < limit
    /\ events' = [events EXCEPT ![c] = Append(@, hasData)]
    /\ out' = [out EXCEPT ![c] = Append(@, DataChunk(calls[c], DataCount(@, calls[c]) + 1))]
    /\ UNCHANGED <<now, sem, waiters, holders, last_api_call_time, pc,
                   retry_count, wakeAt, calls, waits, outcomes>>

\* async for event in self.agent.stream_async(...): if "data" in event: yield event["data"]
\* The engine emits its next event, with or without a "data" key; the k-th
\* payload of attempt a is DataChunk(a, k).
EngineEmits(c, hasData, limit) ==
    /\ pc[c] = "calling"
    /\ Len(events[c]) < limit
    /\ events' = [events EXCEPT ![c] = Append(@, hasData)]
    /\ out' = [out EXCEPT ![c] =
                 IF hasData THEN Append(@, DataChunk(calls[c], DataCount(@, calls[c]) + 1))
                 ELSE @]
    /\ UNCHANGED <<now, sem, waiters, holders, last_api_call_time, pc,
                   retry_count, wakeAt, calls, waits, outcomes>>

\* an attempt of at most MaxEvents events
EngineEvent(c, hasData) == EngineEmits(c, hasData, MaxEvents)

\* The engine's stream ends normally: break, leave the async with block
EngineOk(c) ==
    /\ pc[c] = "calling"
    /\ outcomes' = [outcomes EXCEPT ![c] = Append(@, "ok")]
    /\ events' = [events EXCEPT ![c] = <<>>]
    /\ ReleaseAndFinish(c)
    /\ UNCHANGED <<now, last_api_call_time, retry_count, wakeAt, out, calls, waits>>

\* a retry that takes back the chunks of the attempt that failed
EngineFail_Retract(c, e) ==
    /\ pc[c] = "calling"
    /\ IF IsThrottling(e)
       THEN /\ retry_count' = [retry_count EXCEPT ![c] = @ + 1]
            /\ IF retry_count[c] + 1 > stream_max_retries
               THEN /\ out' = [out EXCEPT ![c] = Append(@, ExhaustedNotice)]
                    /\ ReleaseAndFinish(c)
                    /\ UNCHANGED <<wakeAt, waits>>
               ELSE LET backoff_delay == BackoffDelay(retry_count[c] + 1) IN
                    /\ out' = [out EXCEPT ![c] =
                                 Append(SelectSeq(@, LAMBDA ch : ~(ch.kind = "data" /\ ch.n = calls[c])),
                                        RetryNotice(backoff_delay, retry_count[c] + 1))]
                    /\ pc' = [pc EXCEPT ![c] = "backoff"]
                    /\ wakeAt' = [wakeAt EXCEPT ![c] = now + backoff_delay]
                    /\ waits' = [waits EXCEPT ![c] = Append(@, backoff_delay)]
                    /\ UNCHANGED <<sem, waiters, holders>>
       ELSE /\ out' = [out EXCEPT ![c] = Append(@, ErrorNotice(e))]
            /\ ReleaseAndFinish(c)
            /\ UNCHANGED <<retry_count, wakeAt, waits>>
    /\ outcomes' = [outcomes EXCEPT ![c] = Append(@, e)]
    /\ events' = [events EXCEPT ![c] = <<>>]
    /\ UNCHANGED <<now, last_api_call_time, calls>>

\* a retry loop whose branch for other failures yields its notice and goes
\* round again instead of leaving the loop
EngineFail_NoBreak(c, e) ==
    /\ pc[c] = "calling"
    /\ IF IsThrottling(e)
       THEN /\ retry_count' = [retry_count EXCEPT ![c] = @ + 1]
            /\ IF retry_count[c] + 1 > stream_max_retries
               THEN /\ out' = [out EXCEPT ![c] = Append(@, ExhaustedNotice)]
                    /\ ReleaseAndFinish(c)
                    /\ UNCHANGED <<wakeAt, waits, calls>>
               ELSE LET backoff_delay == BackoffDelay(retry_count[c] + 1) IN
                    /\ out' = [out EXCEPT ![c] =
                                 Append(@, RetryNotice(backoff_delay, retry_count[c] + 1))]
                    /\ pc' = [pc EXCEPT ![c] = "backoff"]
                    /\ wakeAt' = [wakeAt EXCEPT ![c] = now + backoff_delay]
                    /\ waits' = [waits EXCEPT ![c] = Append(@, backoff_delay)]
                    /\ UNCHANGED <<sem, waiters, holders, calls>>
       ELSE /\ out' = [out EXCEPT ![c] = Append(@, ErrorNotice(e))]
            /\ IF calls[c] <= stream_max_retries
               THEN /\ calls' = [calls EXCEPT ![c] = @ + 1]
                    /\ UNCHANGED <<sem, waiters, holders, pc>>
               ELSE /\ ReleaseAndFinish(c)
                    /\ UNCHANGED calls
            /\ UNCHANGED <<retry_count, wakeAt, waits>>
    /\ outcomes' = [outcomes EXCEPT ![c] = Append(@, e)]
    /\ events' = [events EXCEPT ![c] = <<>>]
    /\ UNCHANGED <<now, last_api_call_time>>

\* The engine raises e: the except branch at lines 618-641
EngineFail(c, e) ==
    /\ pc[c] = "calling"
    /\ IF IsThrottling(e)
       THEN /\ retry_count' = [retry_count EXCEPT ![c] = @ + 1]
            /\ IF retry_count[c] + 1 > stream_max_retries
               THEN /\ out' = [out EXCEPT ![c] = Append(@, ExhaustedNotice)]
                    /\ ReleaseAndFinish(c)
                    /\ UNCHANGED <<wakeAt, waits>>
               ELSE LET backoff_delay == BackoffDelay(retry_count[c] + 1) IN
                    /\ out' = [out EXCEPT ![c] =
                                 Append(@, RetryNotice(backoff_delay, retry_count[c] + 1))]
                    /\ pc' = [pc EXCEPT ![c] = "backoff"]
                    /\ wakeAt' = [wakeAt EXCEPT ![c] = now + backoff_delay]
                    /\ waits' = [waits EXCEPT ![c] = Append(@, backoff_delay)]
                    /\ UNCHANGED <<sem, waiters, holders>>
       ELSE /\ out' = [out EXCEPT ![c] = Append(@, ErrorNotice(e))]
            /\ ReleaseAndFinish(c)
            /\ UNCHANGED <<retry_count, wakeAt, waits>>
    /\ outcomes' = [outcomes EXCEPT ![c] = Append(@, e)]
    /\ events' = [events EXCEPT ![c] = <<>>]
    /\ UNCHANGED <<now, last_api_call_time, calls>>

\* a retry that calls the engine again without writing the timestamp
BackoffWake_NoStamp(c) ==
    /\ pc[c] = "backoff"
    /\ now >= wakeAt[c]
    /\ StartEngineCall(c)
    /\ wakeAt' = [wakeAt EXCEPT ![c] = 0]
    /\ UNCHANGED <<now, sem, waiters, holders, retry_count, out, waits, outcomes,
                   last_api_call_time>>

\* await asyncio.sleep(backoff_delay) returns; the timestamp is written and
\* the while loop calls the engine again
BackoffWake(c) ==
    /\ pc[c] = "backoff"
    /\ now >= wakeAt[c]
    /\ last_api_call_time' = now
    /\ StartEngineCall(c)
    /\ wakeAt' = [wakeAt EXCEPT ![c] = 0]
    /\ UNCHANGED <<now, sem, waiters, holders, retry_count, out, waits, outcomes>>

\* The clock advances
Tick(limit) ==
    /\ now < limit
    /\ now' = now + 1
    /\ UNCHANGED <<sem, waiters, holders, last_api_call_time, pc, retry_count,
                   wakeAt, events, out, calls, waits, outcomes>>


----------------------------------------------------------------------------
(* The remote call invoker: HostAgent._send_message_impl *)

NumInvokes == 2          \* invocations of _send_message_impl
InvokerMaxTime == 4      \* the clock of the invoker stops advancing here

send_max_retries_OneMore == 1 + 1
send_max_retries == 1    \* max_retries = 1 in _send_message_impl
send_base_delay == 2     \* base_delay = 2.0 in _send_message_impl

Invokes == 1..NumInvokes

AgentNames == {"A", "B", "Z"}           \* names the engine may ask for
Tasks == {"check host X", "fix host X", "<no text>"}

\* hash(task): the tasks of the model have different hashes
TaskHash(t) ==
    CASE t = "check host X" -> 11
      [] t = "fix host X" -> 12
      [] OTHER -> 13

\* request_key = f"{agent_name}:{hash(task)}"
RequestKey(a, t) == <<a, TaskHash(t)>>

\* MessageSendParams.model_validate(payload) and SendMessageRequest(...):
\* the text part of the envelope must be a string
EnvelopeValid(t) == t # "<no text>"

\* What client.send_message returns: "nonsuccess" (an error response, or a
\* success whose result is not a Task), or the artifacts of a Task, each the
\* sequence of its parts
Responses ==
    { <<"nonsuccess">>, <<"task", <<>>>>, <<"task", << <<>> >> >>,
      <<"task", << <<"p1", "p2">>, <<>>, <<"p3">> >> >> }

\* no response has come (yet)
NoResponse == <<"none">>

\* What client.send_message raises
SendErrors == {"TooMany", "AccessDenied"}

RECURSIVE ExtendParts_Reversed(_, _)
\* the parts of each artifact put in front of those gathered before
ExtendParts_Reversed(resp, artifacts) ==
    IF artifacts = <<>> THEN resp
    ELSE ExtendParts_Reversed(Head(artifacts) \o resp, Tail(artifacts))

RECURSIVE ExtendParts(_, _)
\* for artifact in artifacts: if artifact.get("parts"): resp.extend(artifact["parts"])
ExtendParts(resp, artifacts) ==
    IF artifacts = <<>> THEN resp
    ELSE ExtendParts(IF Head(artifacts) # <<>> THEN resp \o Head(artifacts) ELSE resp,
                     Tail(artifacts))

Result(kind, agent, err, parts) ==
    [kind |-> kind, agent |-> agent, err |-> err, parts |-> parts]

NoResult == Result("", "", "", <<>>)
\* "Request already processed - avoiding duplicate call to prevent multiple invocations"
DuplicateSentinel == Result("duplicate", "", "", <<>>)
\* f"Agent {agent_name} not found"
AgentNotFound(a) == Result("not_found", a, "", <<>>)
\* "Received a non-success or non-task response. Request completed to prevent duplicate calls."
NonSuccessResult == Result("non_success", "", "", <<>>)
\* "No response received"
NoResponseReceived == Result("no_response", "", "", <<>>)
\* json.dumps(resp, indent=2)
PartsResult(parts) == Result("parts", "", "", parts)
\* f"Error sending message to {agent_name}: {str(e)}"
SendError(a, e) == Result("send_error", a, e, <<>>)

\* the dump of resp returned also when resp is empty
AggregateResult_NeverEmpty(artifacts) == PartsResult(ExtendParts(<<>>, artifacts))

\* result = json.dumps(resp, indent=2) if resp else "No response received"
AggregateResult(artifacts) ==
    LET resp == ExtendParts(<<>>, artifacts) IN
    IF resp # <<>> THEN PartsResult(resp) ELSE NoResponseReceived

\* base_delay * (2 ** (retry_count - 1)) in _send_message_impl
SendBackoffDelay(rc) == send_base_delay * Pow2(rc - 1)

VARIABLES
    remote_agent_connections,  \* self.remote_agent_connections: names registered
    completed_requests,        \* self.completed_requests
    ipc,                       \* where each invocation stands
    iagent,                    \* agent_name of each invocation
    itask,                     \* task of each invocation
    iretry,                    \* retry_count of each invocation
    iwake,                     \* when the retry sleep of each invocation may return
    isends,                    \* client.send_message calls each invocation made
    ierrs,                     \* errors those calls raised, in order
    iresp,                     \* send_response: what the last call returned
    iresult                    \* what each invocation returned

invokerVars == <<remote_agent_connections, completed_requests, ipc, iagent, itask,
                 iretry, iwake, isends, ierrs, iresp, iresult>>

requestVars == <<completed_requests, ipc, iagent, itask, iretry, iwake, isends,
                 ierrs, iresp, iresult>>

\* No request has been made yet
InitRequests ==
    /\ completed_requests = {}
    /\ ipc = [i \in Invokes |-> "idle"]
    /\ iagent = [i \in Invokes |-> ""]
    /\ itask = [i \in Invokes |-> ""]
    /\ iretry = [i \in Invokes |-> 0]
    /\ iwake = [i \in Invokes |-> 0]
    /\ isends = [i \in Invokes |-> 0]
    /\ ierrs = [i \in Invokes |-> <<>>]
    /\ iresp = [i \in Invokes |-> NoResponse]
    /\ iresult = [i \in Invokes |-> NoResult]

\* The invoker of a host whose discovery registered the specialists A and B
InitInvoker ==
    /\ remote_agent_connections = {"A", "B"}
    /\ InitRequests

\* return <result>
Return(i, r) ==
    /\ ipc' = [ipc EXCEPT ![i] = "done"]
    /\ iresult' = [iresult EXCEPT ![i] = r]

\* the new request key takes the place of the recorded ones
MarkRequest_Replace(key) == {key}

\* the request key is never recorded
MarkRequest_Forget(key) == completed_requests

\* self.completed_requests.add(request_key)
MarkRequest(key) == completed_requests \cup {key}

\* an invoker that records the request key before it looks the agent up
InvokeEnter_MarkFirst(i, a, t) ==
    /\ ipc[i] = "idle"
    /\ \A j \in Invokes : j < i => ipc[j] # "idle"
    /\ iagent' = [iagent EXCEPT ![i] = a]
    /\ itask' = [itask EXCEPT ![i] = t]
    /\ IF RequestKey(a, t) \in completed_requests
       THEN /\ Return(i, DuplicateSentinel)
            /\ UNCHANGED <<completed_requests, isends>>
       ELSE /\ completed_requests' = MarkRequest(RequestKey(a, t))
            /\ IF a \notin remote_agent_connections
               THEN /\ Return(i, AgentNotFound(a))
                    /\ UNCHANGED isends
               ELSE IF EnvelopeValid(t)
               THEN /\ ipc' = [ipc EXCEPT ![i] = "sending"]
                    /\ isends' = [isends EXCEPT ![i] = @ + 1]
                    /\ UNCHANGED iresult
               ELSE /\ ipc' = [ipc EXCEPT ![i] = "raised"]
                    /\ UNCHANGED <<isends, iresult>>
    /\ UNCHANGED <<remote_agent_connections, iretry, iwake, ierrs, iresp>>

\* _send_message_impl(agent_name, task) from its entry to its first suspension
\* (lines 651-698): duplicate check, agent lookup, key insertion, envelope,
\* first client.send_message.  The values of remote_agent_connections are
\* RemoteAgentConnections objects, which are true, so "if not client" at line
\* 662 never returns.
InvokeEnter(i, a, t) ==
    /\ ipc[i] = "idle"
    /\ \A j \in Invokes : j < i => ipc[j] # "idle"   \* invocations are numbered as they arrive
    /\ iagent' = [iagent EXCEPT ![i] = a]
    /\ itask' = [itask EXCEPT ![i] = t]
    /\ IF RequestKey(a, t) \in completed_requests
       THEN /\ Return(i, DuplicateSentinel)
            /\ UNCHANGED <<completed_requests, isends>>
       ELSE IF a \notin remote_agent_connections
       THEN /\ Return(i, AgentNotFound(a))
            /\ UNCHANGED <<completed_requests, isends>>
       ELSE /\ completed_requests' = MarkRequest(RequestKey(a, t))
            /\ IF EnvelopeValid(t)
               THEN /\ ipc' = [ipc EXCEPT ![i] = "sending"]
                    /\ isends' = [isends EXCEPT ![i] = @ + 1]
                    /\ UNCHANGED iresult
               ELSE \* pydantic's ValidationError leaves _send_message_impl
                    /\ ipc' = [ipc EXCEPT ![i] = "raised"]
                    /\ UNCHANGED <<isends, iresult>>
    /\ UNCHANGED <<remote_agent_connections, iretry, iwake, ierrs, iresp>>

\* a non-success response answered with the retry
SendReturns_RetryNonSuccess(i, resp) ==
    /\ ipc[i] = "sending"
    /\ iresp' = [iresp EXCEPT ![i] = resp]
    /\ IF resp[1] = "nonsuccess" /\ iretry[i] < send_max_retries
       THEN /\ iretry' = [iretry EXCEPT ![i] = @ + 1]
            /\ ipc' = [ipc EXCEPT ![i] = "retry_sleep"]
            /\ iwake' = [iwake EXCEPT ![i] = now + SendBackoffDelay(iretry[i] + 1)]
            /\ UNCHANGED iresult
       ELSE /\ IF resp[1] = "nonsuccess"
               THEN Return(i, NonSuccessResult)
               ELSE Return(i, AggregateResult(resp[2]))
            /\ UNCHANGED <<iretry, iwake>>
    /\ UNCHANGED <<remote_agent_connections, completed_requests, iagent, itask,
                   isends, ierrs>>

\* client.send_message returned (lines 698-718)
SendReturns(i, resp) ==
    /\ ipc[i] = "sending"
    /\ iresp' = [iresp EXCEPT ![i] = resp]
    /\ IF resp[1] = "nonsuccess"
       THEN Return(i, NonSuccessResult)
       ELSE Return(i, AggregateResult(resp[2]))
    /\ UNCHANGED <<remote_agent_connections, completed_requests, iagent, itask,
                   iretry, iwake, isends, ierrs>>

\* an invoker that drops a specialist from the registry when its call fails
SendRaises_Deregister(i, e) ==
    /\ ipc[i] = "sending"
    /\ ierrs' = [ierrs EXCEPT ![i] = Append(@, e)]
    /\ IF IsThrottling(e) /\ iretry[i] < send_max_retries
       THEN /\ iretry' = [iretry EXCEPT ![i] = @ + 1]
            /\ ipc' = [ipc EXCEPT ![i] = "retry_sleep"]
            /\ iwake' = [iwake EXCEPT ![i] = now + SendBackoffDelay(iretry[i] + 1)]
            /\ UNCHANGED <<iresult, remote_agent_connections>>
       ELSE /\ Return(i, SendError(iagent[i], e))
            /\ remote_agent_connections' = remote_agent_connections \ {iagent[i]}
            /\ UNCHANGED <<iretry, iwake>>
    /\ UNCHANGED <<completed_requests, iagent, itask, isends, iresp>>

\* client.send_message raised e (lines 720-733); a retry starts with its sleep.
\* Every pass through the loop body returns or continues, and the last pass
\* cannot continue, so lines 735-737 after the loop are never reached.
SendRaises(i, e) ==
    /\ ipc[i] = "sending"
    /\ ierrs' = [ierrs EXCEPT ![i] = Append(@, e)]
    /\ IF IsThrottling(e) /\ iretry[i] < send_max_retries
       THEN /\ iretry' = [iretry EXCEPT ![i] = @ + 1]
            /\ ipc' = [ipc EXCEPT ![i] = "retry_sleep"]
            /\ iwake' = [iwake EXCEPT ![i] = now + SendBackoffDelay(iretry[i] + 1)]
            /\ UNCHANGED iresult
       ELSE /\ Return(i, SendError(iagent[i], e))
            /\ UNCHANGED <<iretry, iwake>>
    /\ UNCHANGED <<remote_agent_connections, completed_requests, iagent, itask, isends,
                   iresp>>

\* await asyncio.sleep(backoff_delay) returned; client.send_message is called again
RetryWake(i) ==
    /\ ipc[i] = "retry_sleep"
    /\ now >= iwake[i]
    /\ ipc' = [ipc EXCEPT ![i] = "sending"]
    /\ isends' = [isends EXCEPT ![i] = @ + 1]
    /\ iwake' = [iwake EXCEPT ![i] = 0]
    /\ UNCHANGED <<remote_agent_connections, completed_requests, iagent, itask,
                   iretry, ierrs, iresp, iresult>>


----------------------------------------------------------------------------
(* Discovery: HostAgent._async_init_components *)

MaxAddresses == 2        \* configured addresses in remote_agent_addresses

card_max_retries_OneMore == 3 + 1
card_max_retries == 3    \* max_retries = 3 for the agent card
card_retry_delay == 2    \* retry_delay = 2 for the agent card

Addresses == {"http://a1", "http://b", "http://a2"}

\* The agent card an address serves; two of the addresses serve a card of
\* the same name
CardOf(address) ==
    CASE address = "http://a1" -> [name |-> "A", description |-> "first A", url |-> address]
      [] address = "http://b" -> [name |-> "B", description |-> "B", url |-> address]
      [] OTHER -> [name |-> "A", description |-> "second A", url |-> address]

\* The lists of configured addresses: different addresses, up to MaxAddresses
AddressLists ==
    {l \in UNION {[1..n -> Addresses] : n \in 0..MaxAddresses} :
        \A i, j \in 1..Len(l) : i # j => l[i] # l[j]}

\* How client.get(f"{address}/health") ends
ProbeOutcomes == {"ok", "ConnectError", "Timeout", "HTTPStatus", "Other"}
\* What card_resolver.get_agent_card() raises
FetchErrors == {"ConnectError", "Timeout", "HTTPStatus", "Other"}

\* The status recorded by the except branch that catches e, lines 469-544
ResultStatus(e) ==
    CASE e = "ConnectError" -> "connection_error"
      [] e = "Timeout" -> "timeout_error"
      [] e = "HTTPStatus" -> "http_error"
      [] OTHER -> "general_error"

ConnectionResult(address, status, agent_name) ==
    [address |-> address, status |-> status, agent_name |-> agent_name]

NoCards == [n \in {} |-> CardOf("")]
NoConnections == [n \in {} |-> ""]
NoAgentsFound == {[name |-> "", description |-> "No agents found"]}

\* get_default_system_prompt(): the fixed text around
\* <Available Agents> {available_agents} </Available Agents>
GetDefaultSystemPrompt(available_agents) == [available_agents |-> available_agents]

VARIABLES
    remote_agent_addresses,  \* the argument of _async_init_components
    dpc,                     \* where discovery stands
    didx,                    \* i: position of the address being processed
    attempt,                 \* attempt of the agent card loop
    retry_delay,             \* retry_delay of the agent card loop
    dwake,                   \* when the pending retry sleep may return
    probe_outcome,           \* how the last health check ended ("" = none made)
    agent_url,               \* agent_url of each connection in remote_agent_connections
    cards,                   \* self.cards: name -> agent card
    agents,                  \* self.agents: the entries of the summary text
    system_prompt,           \* self.agent.system_prompt
    connection_results,      \* connection_results
    fetch_log,               \* per position: how each get_agent_card call ended
    fetch_waits              \* per position: the retry delays slept

discoveryVars == <<remote_agent_addresses, dpc, didx, attempt, retry_delay, dwake,
                   probe_outcome, agent_url, cards, agents, system_prompt,
                   connection_results, fetch_log, fetch_waits>>

\* The host after __init__, lines 137-139
InitDiscovery ==
    /\ remote_agent_connections = {}
    /\ agent_url = NoConnections
    /\ probe_outcome = ""
    /\ cards = NoCards
    /\ agents = {}
    /\ system_prompt = GetDefaultSystemPrompt({})
    /\ remote_agent_addresses = <<>>
    /\ dpc = "idle"
    /\ didx = 0
    /\ attempt = 0
    /\ retry_delay = 0
    /\ dwake = 0
    /\ connection_results = <<>>
    /\ fetch_log = <<>>
    /\ fetch_waits = <<>>

\* json.dumps({"name": card.name, "description": card.description}) for each
\* card, or "No agents found" (lines 569-574)
AgentInfo(cs) ==
    IF DOMAIN cs = {} THEN NoAgentsFound
    ELSE {[name |-> cs[n].name, description |-> cs[n].description] : n \in DOMAIN cs}

\* self.remote_agent_connections[card.name] =
\*     RemoteAgentConnections(agent_card=card, agent_url=address)
RegisterConnection(urls, name, address) ==
    [n \in DOMAIN urls \cup {name} |-> IF n = name THEN address ELSE urls[n]]

\* a registry that keeps the first card of a name
RegisterCard_KeepFirst(cs, card) ==
    [n \in DOMAIN cs \cup {card.name} |-> IF n \in DOMAIN cs THEN cs[n] ELSE card]

\* self.cards[card.name] = card
RegisterCard(cs, card) ==
    [n \in DOMAIN cs \cup {card.name} |-> IF n = card.name THEN card ELSE cs[n]]

LogFetch(how) == [fetch_log EXCEPT ![didx] = Append(@, how)]

\* a discovery that gives up at the first address it cannot fetch
NextAddress_Abort(cs, how) ==
    IF didx < Len(remote_agent_addresses) /\ how = "ok"
    THEN /\ didx' = didx + 1
         /\ dpc' = "probing"
         /\ fetch_log' = Append(LogFetch(how), <<>>)
         /\ fetch_waits' = Append(fetch_waits, <<>>)
         /\ UNCHANGED <<agents, system_prompt>>
    ELSE /\ dpc' = "done"
         /\ agents' = AgentInfo(cs)
         /\ system_prompt' = GetDefaultSystemPrompt(AgentInfo(cs))
         /\ fetch_log' = LogFetch(how)
         /\ UNCHANGED <<didx, fetch_waits>>

\* a discovery that writes the summary and leaves the system prompt as it was
NextAddress_StalePrompt(cs, how) ==
    IF didx < Len(remote_agent_addresses)
    THEN /\ didx' = didx + 1
         /\ dpc' = "probing"
         /\ fetch_log' = Append(LogFetch(how), <<>>)
         /\ fetch_waits' = Append(fetch_waits, <<>>)
         /\ UNCHANGED <<agents, system_prompt>>
    ELSE /\ dpc' = "done"
         /\ agents' = AgentInfo(cs)
         /\ fetch_log' = LogFetch(how)
         /\ UNCHANGED <<didx, fetch_waits, system_prompt>>

\* The for loop goes to the next address and its health check, or the loop
\* ends and lines 546-579 write the summary.  cs is self.cards by then, how
\* tells how the last get_agent_card call ended.
NextAddress(cs, how) ==
    IF didx < Len(remote_agent_addresses)
    THEN /\ didx' = didx + 1
         /\ dpc' = "probing"
         /\ fetch_log' = Append(LogFetch(how), <<>>)
         /\ fetch_waits' = Append(fetch_waits, <<>>)
         /\ UNCHANGED <<agents, system_prompt>>
    ELSE /\ dpc' = "done"
         /\ agents' = AgentInfo(cs)
         /\ system_prompt' = GetDefaultSystemPrompt(AgentInfo(cs))
         /\ fetch_log' = LogFetch(how)
         /\ UNCHANGED <<didx, fetch_waits>>

\* _async_init_components(remote_agent_addresses) up to its first await
DiscoveryStart(addrs) ==
    /\ dpc = "idle"
    /\ remote_agent_addresses' = addrs
    /\ IF addrs = <<>>
       THEN /\ dpc' = "done"
            /\ agents' = AgentInfo(cards)
            /\ system_prompt' = GetDefaultSystemPrompt(AgentInfo(cards))
            /\ UNCHANGED <<didx, fetch_log, fetch_waits>>
       ELSE /\ dpc' = "probing"
            /\ didx' = 1
            /\ fetch_log' = <<<<>>>>
            /\ fetch_waits' = <<<<>>>>
            /\ UNCHANGED <<agents, system_prompt>>
    /\ UNCHANGED <<remote_agent_connections, attempt, retry_delay, dwake, cards,
                   connection_results, probe_outcome, agent_url>>

\* a discovery whose retry delay carries over from the address before
ProbeEnds_CarryDelay(outcome) ==
    /\ dpc = "probing"
    /\ outcome \in ProbeOutcomes
    /\ probe_outcome' = outcome
    /\ attempt' = 0
    /\ retry_delay' = IF retry_delay = 0 THEN card_retry_delay ELSE retry_delay
    /\ dpc' = "fetching"
    /\ UNCHANGED <<remote_agent_connections, remote_agent_addresses, didx, dwake, cards,
                   agents, system_prompt, connection_results, fetch_log, fetch_waits, agent_url>>

\* a discovery that skips an address whose health check did not answer
ProbeEnds_Fatal(outcome) ==
    /\ dpc = "probing"
    /\ outcome \in ProbeOutcomes
    /\ probe_outcome' = outcome
    /\ IF outcome = "ok"
       THEN /\ attempt' = 0
            /\ retry_delay' = card_retry_delay
            /\ dpc' = "fetching"
            /\ UNCHANGED <<didx, agents, system_prompt, connection_results, fetch_log,
                           fetch_waits>>
       ELSE /\ connection_results' = Append(connection_results,
                ConnectionResult(remote_agent_addresses[didx], ResultStatus(outcome), ""))
            /\ NextAddress(cards, "fail")
            /\ UNCHANGED <<attempt, retry_delay>>
    /\ UNCHANGED <<remote_agent_connections, remote_agent_addresses, dwake, cards,
                   agent_url>>

\* The health check ends, lines 358-382: every outcome is logged and the agent
\* card loop starts with its first get_agent_card
ProbeEnds(outcome) ==
    /\ dpc = "probing"
    /\ outcome \in ProbeOutcomes
    /\ probe_outcome' = outcome
    /\ attempt' = 0
    /\ retry_delay' = card_retry_delay
    /\ dpc' = "fetching"
    /\ UNCHANGED <<remote_agent_connections, remote_agent_addresses, didx, dwake, cards,
                   agents, system_prompt, connection_results, fetch_log, fetch_waits, agent_url>>

\* get_agent_card returned, lines 401-467: RemoteAgentConnections(...) is
\* built (connection_ok says whether its constructor returns) and registered
FetchReturns(connection_ok) ==
    /\ dpc = "fetching"
    /\ LET address == remote_agent_addresses[didx]
           card == CardOf(address)
           cs == IF connection_ok THEN RegisterCard(cards, card) ELSE cards
       IN /\ cards' = cs
          /\ remote_agent_connections' =
                IF connection_ok THEN remote_agent_connections \cup {card.name}
                ELSE remote_agent_connections
          /\ agent_url' =
                IF connection_ok THEN RegisterConnection(agent_url, card.name, address)
                ELSE agent_url
          /\ connection_results' = Append(connection_results,
                IF connection_ok THEN ConnectionResult(address, "success", card.name)
                ELSE ConnectionResult(address, "general_error", ""))
          /\ NextAddress(cs, "ok")
    /\ UNCHANGED <<remote_agent_addresses, attempt, retry_delay, dwake, probe_outcome>>

\* get_agent_card raised e, lines 408-449: sleep and retry, or raise to the
\* except branches of lines 469-544 and go on with the next address
FetchRaises(e) ==
    /\ dpc = "fetching"
    /\ IF attempt < card_max_retries - 1
       THEN /\ dpc' = "sleeping"
            /\ dwake' = now + retry_delay
            /\ fetch_log' = LogFetch("fail")
            /\ fetch_waits' = [fetch_waits EXCEPT ![didx] = Append(@, retry_delay)]
            /\ UNCHANGED <<didx, agents, system_prompt, connection_results>>
       ELSE /\ connection_results' = Append(connection_results,
                ConnectionResult(remote_agent_addresses[didx], ResultStatus(e), ""))
            /\ NextAddress(cards, "fail")
            /\ UNCHANGED dwake
    /\ UNCHANGED <<remote_agent_connections, remote_agent_addresses, attempt,
                   retry_delay, cards, probe_outcome, agent_url>>

\* await asyncio.sleep(retry_delay) returned; retry_delay *= 2; the for loop
\* calls get_agent_card again
FetchRetryWake ==
    /\ dpc = "sleeping"
    /\ now >= dwake
    /\ retry_delay' = retry_delay * 2
    /\ attempt' = attempt + 1
    /\ dwake' = 0
    /\ dpc' = "fetching"
    /\ UNCHANGED <<remote_agent_connections, remote_agent_addresses, didx, cards,
                   agents, system_prompt, connection_results, fetch_log, fetch_waits, probe_outcome,
                   agent_url>>

\* The host HostAgent.create returns when both specialists "http://a1" and
\* "http://b" answered at once
InitDiscovered ==
    /\ cards = RegisterCard(RegisterCard(NoCards, CardOf("http://a1")), CardOf("http://b"))
    /\ agents = AgentInfo(cards)
    /\ system_prompt = GetDefaultSystemPrompt(agents)
    /\ agent_url = RegisterConnection(RegisterConnection(NoConnections, "A", "http://a1"),
                                      "B", "http://b")
    /\ probe_outcome = "ok"
    /\ remote_agent_addresses = <<"http://a1", "http://b">>
    /\ dpc = "done"
    /\ didx = 2
    /\ attempt = 0
    /\ retry_delay = card_retry_delay
    /\ dwake = 0
    /\ connection_results = <<ConnectionResult("http://a1", "success", "A"),
                              ConnectionResult("http://b", "success", "B")>>
    /\ fetch_log = <<<<"ok">>, <<"ok">>>>
    /\ fetch_waits = <<<<>>, <<>>>>


----------------------------------------------------------------------------
(* The entry point invoke, the producer task host_agent_task and the        *)
(* streaming bridge between them                                            *)

BridgeMaxTime == 4       \* the clock of one invocation stops advancing here

Sessions == {"", "session-1"}              \* context.session_id ("" = not set)
TokenResults == {"token", "", "raise"}     \* what get_gateway_access_token() does
CreateOutcomes == {"ok", "AccessDenied"}   \* HostMemoryHook / HostAgent.create

\* The item finish() puts after the last chunk
EndMarker == Chunk("end", "", 0, 0)

VARIABLES
    vpc,                \* invoke: "idle", "raised" or "returned"
    context_session_id, \* context.session_id of the invocation ("" = not set)
    gateway_token_ctx,  \* HostAgentContext gateway token ("" = none)
    agent_ctx,          \* HostAgentContext agent: has the HostAgent been created
    queue_exists,       \* HostAgentContext response queue: has it been created
    queue_items,        \* HostStreamingQueue: items put and not yet taken
    queue_finished,     \* HostStreamingQueue: finish() was called
    tpc,                \* the producer task host_agent_task
    cpc,                \* the consumer stream_output
    put_log,            \* every chunk the producer has put
    received            \* every chunk stream_output has yielded

bridgeVars == <<vpc, context_session_id, gateway_token_ctx, agent_ctx, queue_exists, queue_items,
                queue_finished, tpc, cpc, put_log, received>>

InitBridge ==
    /\ vpc = "idle"
    /\ context_session_id = ""
    /\ gateway_token_ctx = ""
    /\ agent_ctx = FALSE
    /\ queue_exists = FALSE
    /\ queue_items = <<>>
    /\ queue_finished = FALSE
    /\ tpc = "none"
    /\ cpc = "none"
    /\ put_log = <<>>
    /\ received = <<>>

\* an entry point that starts the producer task whatever the session id
Invoke_NoSessionCheck(session_id, token_result) ==
    /\ vpc = "idle"
    /\ context_session_id' = session_id
    /\ queue_exists' = TRUE
    /\ IF gateway_token_ctx = "" /\ token_result = "raise"
       THEN /\ vpc' = "raised"
            /\ UNCHANGED <<gateway_token_ctx, tpc, cpc>>
       ELSE /\ gateway_token_ctx' =
                  IF gateway_token_ctx = "" THEN token_result ELSE gateway_token_ctx
            /\ vpc' = "returned"
            /\ tpc' = "created"
            /\ cpc' = "reading"
    /\ UNCHANGED <<agent_ctx, queue_items, queue_finished, put_log, received>>

\* invoke(payload, context), lines 780-810
Invoke(session_id, token_result) ==
    /\ vpc = "idle"
    /\ context_session_id' = session_id
    /\ queue_exists' = TRUE
    /\ IF gateway_token_ctx = "" /\ token_result = "raise"
       THEN /\ vpc' = "raised"
            /\ UNCHANGED <<gateway_token_ctx, tpc, cpc>>
       ELSE /\ gateway_token_ctx' =
                  IF gateway_token_ctx = "" THEN token_result ELSE gateway_token_ctx
            /\ IF session_id = ""
               THEN /\ vpc' = "raised"
                    /\ UNCHANGED <<tpc, cpc>>
               ELSE /\ vpc' = "returned"
                    /\ tpc' = "created"
                    /\ cpc' = "reading"
    /\ UNCHANGED <<agent_ctx, queue_items, queue_finished, put_log, received>>

\* a put that jumps the queue: the items go in front of those waiting
Put_Front(items) ==
    /\ queue_items' = items \o queue_items
    /\ put_log' = put_log \o items

\* HostStreamingQueue.put: the items appended to the queue
Put(items) ==
    /\ queue_items' = queue_items \o items
    /\ put_log' = put_log \o items

\* HostStreamingQueue.finish
Finish(items) ==
    /\ queue_items' = (queue_items \o items) \o <<EndMarker>>
    /\ put_log' = put_log \o items
    /\ queue_finished' = TRUE

\* host_agent_task starts: lines 742-767 up to its first suspension
TaskStart ==
    /\ tpc = "created"
    /\ tpc' = IF gateway_token_ctx = "" THEN "raised"
              ELSE IF ~agent_ctx THEN "creating"
              ELSE "streaming"
    /\ UNCHANGED <<vpc, context_session_id, gateway_token_ctx, agent_ctx, queue_exists, queue_items,
                   queue_finished, cpc, put_log, received>>

\* HostMemoryHook(...) and HostAgent.create(...) end, lines 751-767; a failure
\* goes through except and finally, lines 772-776
TaskCreateAgent(outcome) ==
    /\ tpc = "creating"
    /\ IF outcome = "ok"
       THEN /\ agent_ctx' = TRUE
            /\ tpc' = "streaming"
            /\ UNCHANGED <<queue_items, queue_finished, put_log>>
       ELSE /\ Finish(<<ErrorNotice(outcome)>>)
            /\ tpc' = "finished"
            /\ UNCHANGED agent_ctx
    /\ UNCHANGED <<vpc, context_session_id, gateway_token_ctx, queue_exists, cpc, received>>

\* async for chunk in agent.stream(...): await response_queue.put(chunk)
\* lines 769-770: what a step of stream has yielded is put on the queue
TaskStream ==
    /\ tpc = "streaming"
    /\ Put(SubSeq(out'[1], Len(out[1]) + 1, Len(out'[1])))
    /\ UNCHANGED <<vpc, context_session_id, gateway_token_ctx, agent_ctx, queue_exists, queue_finished,
                   tpc, cpc, received>>

\* finish() signalled while the stream is still running, the task going on
TaskFinish_Early ==
    /\ tpc = "streaming"
    /\ ~queue_finished
    /\ pc[1] # "done"
    /\ Finish(<<>>)
    /\ UNCHANGED <<vpc, context_session_id, gateway_token_ctx, agent_ctx, queue_exists, tpc, cpc, received>>

\* finally: await response_queue.finish(), lines 775-776, once stream has ended
TaskFinish ==
    /\ tpc = "streaming"
    /\ pc[1] = "done"
    /\ Finish(<<>>)
    /\ tpc' = "finished"
    /\ UNCHANGED <<vpc, context_session_id, gateway_token_ctx, agent_ctx, queue_exists, cpc, received>>

\* async for item in response_queue.stream(): yield item  (lines 806-807)
\* The loop of HostStreamingQueue.stream takes the next item; it ends on the
\* end marker once finish() was called
ConsumerGet ==
    /\ cpc = "reading"
    /\ queue_items # <<>>
    /\ queue_items' = Tail(queue_items)
    /\ IF Head(queue_items) = EndMarker /\ queue_finished
       THEN /\ cpc' = "awaiting_task"
            /\ UNCHANGED received
       ELSE /\ received' = Append(received, Head(queue_items))
            /\ UNCHANGED cpc
    /\ UNCHANGED <<vpc, context_session_id, gateway_token_ctx, agent_ctx, queue_exists, queue_finished,
                   tpc, put_log>>

\* await task, line 808
ConsumerAwaitTask ==
    /\ cpc = "awaiting_task"
    /\ tpc \in {"finished", "raised"}
    /\ cpc' = IF tpc = "raised" THEN "raised" ELSE "closed"
    /\ UNCHANGED <<vpc, context_session_id, gateway_token_ctx, agent_ctx, queue_exists, queue_items,
                   queue_finished, tpc, put_log, received>>

----------------------------------------------------------------------------
(* Several invocations of the entry point on one process *)

NumInvocations == 2      \* invocations of invoke
MaxPuts == 1             \* chunks one producer task puts before it finishes

Invocations == 1..NumInvocations
QueueIds == 1..NumInvocations    \* the HostStreamingQueue objects, as created

\* the n-th chunk that the producer task of invocation k puts
ChunkOf(k, n) == <<k, n>>

VARIABLES
    ctx_queue,      \* HostAgentContext response queue as later invocations find it (0 = none)
    ctx_token,      \* HostAgentContext gateway token as later invocations find it
    nqueues,        \* HostStreamingQueue objects created so far
    q_items,        \* per queue: items put and not yet taken
    q_finished,     \* per queue: finish() was called
    q_log,          \* per queue: who started a task on it, put into it, finished it
    spc,            \* per invocation: invoke is "idle", "raised" or "returned"
    squeue,         \* per invocation: the response queue of its context (0 = none)
    stoken,         \* per invocation: the gateway token of its context
    stask,          \* per invocation: its producer task host_agent_task
    scons,          \* per invocation: its consumer stream_output
    sreceived       \* per invocation: what stream_output has yielded

sessionVars == <<ctx_queue, ctx_token, nqueues, q_items, q_finished, q_log, spc,
                 squeue, stoken, stask, scons, sreceived>>

InitSessions ==
    /\ ctx_queue = 0
    /\ ctx_token = ""
    /\ nqueues = 0
    /\ q_items = [q \in QueueIds |-> <<>>]
    /\ q_finished = [q \in QueueIds |-> FALSE]
    /\ q_log = [q \in QueueIds |-> <<>>]
    /\ spc = [k \in Invocations |-> "idle"]
    /\ squeue = [k \in Invocations |-> 0]
    /\ stoken = [k \in Invocations |-> ""]
    /\ stask = [k \in Invocations |-> "none"]
    /\ scons = [k \in Invocations |-> "none"]
    /\ sreceived = [k \in Invocations |-> <<>>]

LogQueue(q, what, k) == [q_log EXCEPT ![q] = Append(@, <<what, k>>)]

\* the chunks the producer task of invocation k has put so far
PutsOf(k) ==
    IF squeue[k] = 0 THEN 0
    ELSE Cardinality({n \in 1..Len(q_log[squeue[k]]) : q_log[squeue[k]][n] = <<"put", k>>})

\* an entry point that makes a new response queue for every invocation
SessionInvoke_OwnQueue(k, session_id, token_result, carried) ==
    /\ spc[k] = "idle"
    /\ \A j \in Invocations : j < k => spc[j] # "idle"
    /\ LET token == IF carried THEN ctx_token ELSE ""
           q == nqueues + 1
           started == ~(token = "" /\ token_result = "raise") /\ session_id # ""
       IN /\ nqueues' = nqueues + 1
          /\ squeue' = [squeue EXCEPT ![k] = q]
          /\ ctx_queue' = IF carried THEN q ELSE ctx_queue
          /\ IF token = "" /\ token_result = "raise"
             THEN UNCHANGED <<ctx_token, stoken>>
             ELSE /\ stoken' = [stoken EXCEPT ![k] = IF token = "" THEN token_result ELSE token]
                  /\ ctx_token' = IF carried /\ token = "" THEN token_result ELSE ctx_token
          /\ spc' = [spc EXCEPT ![k] = IF started THEN "returned" ELSE "raised"]
          /\ stask' = [stask EXCEPT ![k] = IF started THEN "created" ELSE @]
          /\ scons' = [scons EXCEPT ![k] = IF started THEN "reading" ELSE @]
          /\ q_log' = IF started THEN LogQueue(q, "task", k) ELSE q_log
    /\ UNCHANGED <<q_items, q_finished, sreceived>>

\* invoke(payload, context), lines 780-810, as one of several invocations.
\* carried: the context invoke runs in still holds what an earlier invocation
\* set through HostAgentContext; otherwise invoke finds it empty and what it
\* sets is seen by its own task only.
SessionInvoke(k, session_id, token_result, carried) ==
    /\ spc[k] = "idle"
    /\ \A j \in Invocations : j < k => spc[j] # "idle"   \* numbered as they arrive
    /\ LET found == IF carried THEN ctx_queue ELSE 0
           token == IF carried THEN ctx_token ELSE ""
           q == IF found = 0 THEN nqueues + 1 ELSE found
           started == ~(token = "" /\ token_result = "raise") /\ session_id # ""
       IN /\ nqueues' = IF found = 0 THEN nqueues + 1 ELSE nqueues
          /\ squeue' = [squeue EXCEPT ![k] = q]
          /\ ctx_queue' = IF carried THEN q ELSE ctx_queue
          /\ IF token = "" /\ token_result = "raise"
             THEN UNCHANGED <<ctx_token, stoken>>
             ELSE /\ stoken' = [stoken EXCEPT ![k] = IF token = "" THEN token_result ELSE token]
                  /\ ctx_token' = IF carried /\ token = "" THEN token_result ELSE ctx_token
          /\ spc' = [spc EXCEPT ![k] = IF started THEN "returned" ELSE "raised"]
          /\ stask' = [stask EXCEPT ![k] = IF started THEN "created" ELSE @]
          /\ scons' = [scons EXCEPT ![k] = IF started THEN "reading" ELSE @]
          /\ q_log' = IF started THEN LogQueue(q, "task", k) ELSE q_log
    /\ UNCHANGED <<q_items, q_finished, sreceived>>

\* host_agent_task starts, lines 742-767: without a token it raises before
\* the try; otherwise it gets its host and starts to stream
SessionTaskStart(k) ==
    /\ stask[k] = "created"
    /\ stask' = [stask EXCEPT ![k] = IF stoken[k] = "" THEN "raised" ELSE "streaming"]
    /\ UNCHANGED <<ctx_queue, ctx_token, nqueues, q_items, q_finished, q_log, spc,
                   squeue, stoken, scons, sreceived>>

\* await response_queue.put(chunk), lines 769-770 (or the error chunk of 774)
SessionTaskPut(k) ==
    /\ stask[k] = "streaming"
    /\ PutsOf(k) < MaxPuts
    /\ q_items' = [q_items EXCEPT ![squeue[k]] = Append(@, ChunkOf(k, PutsOf(k) + 1))]
    /\ q_log' = LogQueue(squeue[k], "put", k)
    /\ UNCHANGED <<ctx_queue, ctx_token, nqueues, q_finished, spc, squeue, stoken,
                   stask, scons, sreceived>>

\* finally: await response_queue.finish(), lines 775-776
SessionTaskFinish(k) ==
    /\ stask[k] = "streaming"
    /\ stask' = [stask EXCEPT ![k] = "finished"]
    /\ q_items' = [q_items EXCEPT ![squeue[k]] = Append(@, EndMarker)]
    /\ q_finished' = [q_finished EXCEPT ![squeue[k]] = TRUE]
    /\ q_log' = LogQueue(squeue[k], "finish", k)
    /\ UNCHANGED <<ctx_queue, ctx_token, nqueues, spc, squeue, stoken, scons, sreceived>>

\* async for item in response_queue.stream(): yield item  (lines 806-807)
SessionConsumerGet(k) ==
    /\ scons[k] = "reading"
    /\ q_items[squeue[k]] # <<>>
    /\ q_items' = [q_items EXCEPT ![squeue[k]] = Tail(@)]
    /\ IF Head(q_items[squeue[k]]) = EndMarker /\ q_finished[squeue[k]]
       THEN /\ scons' = [scons EXCEPT ![k] = "awaiting_task"]
            /\ UNCHANGED sreceived
       ELSE /\ sreceived' = [sreceived EXCEPT ![k] = Append(@, Head(q_items[squeue[k]]))]
            /\ UNCHANGED scons
    /\ UNCHANGED <<ctx_queue, ctx_token, nqueues, q_finished, q_log, spc, squeue,
                   stoken, stask>>

\* await task, line 808
SessionConsumerAwaitTask(k) ==
    /\ scons[k] = "awaiting_task"
    /\ stask[k] \in {"finished", "raised"}
    /\ scons' = [scons EXCEPT ![k] = IF stask[k] = "raised" THEN "raised" ELSE "closed"]
    /\ UNCHANGED <<ctx_queue, ctx_token, nqueues, q_items, q_finished, q_log, spc,
                   squeue, stoken, stask, sreceived>>

----------------------------------------------------------------------------
(* The memory-enhanced agent of module 2: TroubleshootingAgent.stream *)

ts_max_retries == 3          \* max_retries = 3
ts_retry_delay_base == 20    \* retry_delay = 2.0, in tenths of a second

Str_Permission == <<"M","i","s","s","i","n","g"," ","p","e","r","m","i","s","s","i","o","n">>
Str_TimedOut == <<"R","e","a","d"," ","t","i","m","e","d"," ","o","u","t">>

Needle_validation == <<"v","a","l","i","d","a","t","i","o","n">>
Needle_permission == <<"p","e","r","m","i","s","s","i","o","n">>
Needle_access == <<"a","c","c","e","s","s">>

\* What the engine of module 2 raises; the last two texts name two classes
TsErrors == {"Throttling", "TooMany", "Validation", "AccessDenied", "Permission",
             "TimedOut", "ThrottledValidation", "ThrottledAccess"}

TsErrText(e) ==
    CASE e = "Throttling" -> Str_Throttling
      [] e = "TooMany" -> Str_TooMany
      [] e = "Validation" -> Str_Validation
      [] e = "AccessDenied" -> Str_AccessDenied
      [] e = "Permission" -> Str_Permission
      [] e = "ThrottledValidation" -> Str_Validation \o <<" ">> \o Str_Throttling
      [] e = "ThrottledAccess" -> Str_TooMany \o <<" ">> \o Str_AccessDenied
      [] OTHER -> Str_TimedOut

\* the branch of the except block (lines 211-242) that handles e
TsClass_ValidationFirst(e) ==
    LET error_str == Lower(TsErrText(e)) IN
    IF Contains(error_str, Needle_validation) THEN "validation"
    ELSE IF Contains(error_str, Needle_permission) \/ Contains(error_str, Needle_access)
    THEN "permission"
    ELSE IF Contains(error_str, Needle_throttling)
            \/ Contains(error_str, Needle_too_many_requests)
    THEN "throttling"
    ELSE "other"

TsClass(e) ==
    LET error_str == Lower(TsErrText(e)) IN
    IF Contains(error_str, Needle_throttling)
       \/ Contains(error_str, Needle_too_many_requests)
    THEN "throttling"
    ELSE IF Contains(error_str, Needle_validation) THEN "validation"
    ELSE IF Contains(error_str, Needle_permission) \/ Contains(error_str, Needle_access)
    THEN "permission"
    ELSE "other"

\* the chunks of module 2: notices carry the delay (tenths of a second) and
\* the attempt they name, final chunks the error
TsRetryNotice(class, delay, n) ==
    Chunk(IF class = "throttling" THEN "rate_wait" ELSE "temp_retry", "", delay, n)
TsFinalChunk(class, e) ==
    CASE class = "throttling" -> Chunk("rate_final", "", 0, 0)
      [] class = "validation" -> Chunk("validation_error", e, 0, 0)
      [] class = "permission" -> Chunk("permission_error", e, 0, 0)
      [] OTHER -> Chunk("error_after", e, ts_max_retries, 0)

VARIABLES
    ts_pc,           \* where the call of stream stands
    ts_attempt,      \* attempt of the for loop
    ts_retry_delay,  \* retry_delay, in tenths of a second
    ts_wake,         \* when the pending sleep may return, in tenths of a second
    ts_events,       \* events of the current engine call: has each a "data" key
    ts_out,          \* the chunks the call has yielded
    ts_calls,        \* engine calls started
    ts_waits,        \* the delays slept, in tenths of a second
    ts_outcomes      \* how each engine call ended: "ok" or the error raised

troubleVars == <<ts_pc, ts_attempt, ts_retry_delay, ts_wake, ts_events, ts_out,
                 ts_calls, ts_waits, ts_outcomes>>

InitTrouble ==
    /\ ts_pc = "idle"
    /\ ts_attempt = 0
    /\ ts_retry_delay = 0
    /\ ts_wake = 0
    /\ ts_events = <<>>
    /\ ts_out = <<>>
    /\ ts_calls = 0
    /\ ts_waits = <<>>
    /\ ts_outcomes = <<>>

\* stream(user_query) up to its first engine call, lines 200-207
TsStreamEnter ==
    /\ ts_pc = "idle"
    /\ ts_pc' = "calling"
    /\ ts_attempt' = 0
    /\ ts_retry_delay' = ts_retry_delay_base
    /\ ts_calls' = 1
    /\ UNCHANGED <<ts_wake, ts_events, ts_out, ts_waits, ts_outcomes>>

\* async for event in self.agent.stream_async(...): if "data" in event: yield event["data"]
TsEngineEmits(hasData, limit) ==
    /\ ts_pc = "calling"
    /\ Len(ts_events) < limit
    /\ ts_events' = Append(ts_events, hasData)
    /\ ts_out' = IF hasData
                 THEN Append(ts_out, DataChunk(ts_calls, DataCount(ts_out, ts_calls) + 1))
                 ELSE ts_out
    /\ UNCHANGED <<ts_pc, ts_attempt, ts_retry_delay, ts_wake, ts_calls, ts_waits,
                   ts_outcomes>>

\* the engine's stream ends: return, line 208
TsEngineOk ==
    /\ ts_pc = "calling"
    /\ ts_pc' = "done"
    /\ ts_outcomes' = Append(ts_outcomes, "ok")
    /\ ts_events' = <<>>
    /\ UNCHANGED <<ts_attempt, ts_retry_delay, ts_wake, ts_out, ts_calls, ts_waits>>

\* the engine raises e: the except block, lines 210-242
TsEngineFail(e) ==
    /\ ts_pc = "calling"
    /\ ts_outcomes' = Append(ts_outcomes, e)
    /\ ts_events' = <<>>
    /\ IF TsClass(e) \in {"throttling", "other"} /\ ts_attempt < ts_max_retries - 1
       THEN /\ ts_out' = Append(ts_out, TsRetryNotice(TsClass(e), ts_retry_delay, ts_attempt + 1))
            /\ ts_pc' = "sleeping"
            /\ ts_wake' = now * 10 + ts_retry_delay
            /\ ts_waits' = Append(ts_waits, ts_retry_delay)
       ELSE /\ ts_out' = Append(ts_out, TsFinalChunk(TsClass(e), e))
            /\ ts_pc' = "done"
            /\ UNCHANGED <<ts_wake, ts_waits>>
    /\ UNCHANGED <<ts_attempt, ts_retry_delay, ts_calls>>

\* a backoff that doubles: retry_delay *= 2
TsNextDelay_Double(d) == d * 2

\* retry_delay *= 1.5
TsNextDelay(d) == (d * 3) \div 2

\* await asyncio.sleep(retry_delay) returned; retry_delay *= 1.5; continue
TsRetryWake ==
    /\ ts_pc = "sleeping"
    /\ now * 10 >= ts_wake
    /\ ts_retry_delay' = TsNextDelay(ts_retry_delay)
    /\ ts_attempt' = ts_attempt + 1
    /\ ts_calls' = ts_calls + 1
    /\ ts_wake' = 0
    /\ ts_pc' = "calling"
    /\ UNCHANGED <<ts_events, ts_out, ts_waits, ts_outcomes>>

----------------------------------------------------------------------------
(* The specialist agents: TroubleshootingAgent.stream of module 1 and of the
   connectivity agent of module 3, PerformanceAgent.stream of module 3.  The
   three operations have the same body. *)

Specialists == {"troubleshooting", "connectivity", "performance"}

\* events followed per engine call
MaxSpecialistEvents == 3

VARIABLES
    sp_agent,     \* the specialist the query went to
    sp_pc,        \* where the call of stream stands
    sp_events,    \* events of the engine call: has each a "data" key
    sp_out,       \* the chunks the call has yielded
    sp_calls,     \* engine calls started
    sp_outcome    \* how the engine call ended: "none", "ok" or the error raised

specialistVars == <<sp_agent, sp_pc, sp_events, sp_out, sp_calls, sp_outcome>>

InitSpecialist ==
    /\ sp_agent = "none"
    /\ sp_pc = "idle"
    /\ sp_events = <<>>
    /\ sp_out = <<>>
    /\ sp_calls = 0
    /\ sp_outcome = "none"

\* stream(user_query) up to self.agent.stream_async(user_query)
SpStreamEnter(a) ==
    /\ sp_pc = "idle"
    /\ sp_agent' = a
    /\ sp_pc' = "calling"
    /\ sp_calls' = sp_calls + 1
    /\ UNCHANGED <<sp_events, sp_out, sp_outcome>>

\* async for event in ...: if "data" in event: yield event["data"]
SpEngineEmits(hasData, limit) ==
    /\ sp_pc = "calling"
    /\ Len(sp_events) < limit
    /\ sp_events' = Append(sp_events, hasData)
    /\ sp_out' = IF hasData
                 THEN Append(sp_out, DataChunk(sp_calls, DataCount(sp_out, sp_calls) + 1))
                 ELSE sp_out
    /\ UNCHANGED <<sp_agent, sp_pc, sp_calls, sp_outcome>>

\* the engine's stream ends and the generator returns
SpEngineOk ==
    /\ sp_pc = "calling"
    /\ sp_pc' = "done"
    /\ sp_outcome' = "ok"
    /\ UNCHANGED <<sp_agent, sp_events, sp_out, sp_calls>>

\* a stream that calls the engine again after a throttling error
SpEngineFail_Retry(e) ==
    /\ sp_pc = "calling"
    /\ sp_outcome' = e
    /\ IF TsClass(e) = "throttling" /\ sp_calls < 2
       THEN /\ sp_calls' = sp_calls + 1
            /\ UNCHANGED <<sp_pc, sp_out>>
       ELSE /\ sp_out' = Append(sp_out, ErrorNotice(e))
            /\ sp_pc' = "done"
            /\ UNCHANGED sp_calls
    /\ UNCHANGED <<sp_agent, sp_events>>

\* the engine raises e: except Exception as e: yield f"Error: {e}"
SpEngineFail(e) ==
    /\ sp_pc = "calling"
    /\ sp_outcome' = e
    /\ sp_out' = Append(sp_out, ErrorNotice(e))
    /\ sp_pc' = "done"
    /\ UNCHANGED <<sp_agent, sp_events, sp_calls>>

----------------------------------------------------------------------------
(* The tool detector of module 4: CloudWatchToolDetector *)

poll_max_attempts == 30    \* max_attempts = 30

\* rows followed per query result
MaxResults == 2

\* What a row of a query result or a log event can be: a message naming
\* toolUse or toolResult, another message, or a row the parser cannot read
Rows == {"toolUse", "toolResult", "other", "malformed"}
ResultLists == UNION {[1..n -> Rows] : n \in 0..MaxResults}

\* _parse_insights_results and _parse_filter_events: the rows whose message
\* names toolUse or toolResult, in order; a row that raises is skipped
ParseRows(results) == SelectSeq(results, LAMBDA r : r \in {"toolUse", "toolResult"})

VARIABLES
    det_pc,        \* where detect_tools_layer1_insights stands
    det_attempt,   \* attempt of the polling loop
    det_polls,     \* the status each get_query_results call returned, "raised" if it raised
    det_results,   \* the rows read from the response: response.get('results') or 'events'
    det_layers,    \* the layers entered, in order
    det_raised,    \* the layers whose call raised
    det_return,    \* the list returned
    det_how        \* the return statement taken

detectorVars == <<det_pc, det_attempt, det_polls, det_results, det_layers, det_raised,
                  det_return, det_how>>

InitDetector ==
    /\ det_pc = "idle"
    /\ det_attempt = 0
    /\ det_polls = <<>>
    /\ det_results = <<>>
    /\ det_layers = <<>>
    /\ det_raised = {}
    /\ det_return = <<>>
    /\ det_how = "none"

\* detect_tools_layer1_insights is called
Layer1Enter ==
    /\ det_pc = "idle"
    /\ det_pc' = "start_query"
    /\ det_layers' = <<1>>
    /\ UNCHANGED <<det_attempt, det_polls, det_results, det_raised, det_return, det_how>>

\* start_query returns a query id: _poll_query_results begins
StartQueryOk ==
    /\ det_pc = "start_query"
    /\ det_pc' = "polling"
    /\ det_attempt' = 0
    /\ UNCHANGED <<det_polls, det_results, det_layers, det_raised, det_return, det_how>>

\* start_query raises: layer 2 is called
StartQueryRaises ==
    /\ det_pc = "start_query"
    /\ det_raised' = det_raised \cup {1}
    /\ det_layers' = Append(det_layers, 2)
    /\ det_pc' = "filter_events"
    /\ UNCHANGED <<det_attempt, det_polls, det_results, det_return, det_how>>

\* get_query_results returns a response with this status and these rows
PollReturns(status, results) ==
    /\ det_pc = "polling"
    /\ det_polls' = Append(det_polls, status)
    /\ CASE status = "Complete" ->
              /\ det_results' = results
              /\ det_return' = ParseRows(results)
              /\ det_how' = "complete"
              /\ det_pc' = "done"
         [] status = "Failed" ->
              /\ det_return' = <<>>
              /\ det_how' = "failed"
              /\ det_pc' = "done"
              /\ UNCHANGED det_results
         [] OTHER ->
              /\ det_pc' = "sleeping"
              /\ UNCHANGED <<det_results, det_return, det_how>>
    /\ UNCHANGED <<det_attempt, det_layers, det_raised>>

\* a poll whose exception reaches layer 1, which then calls layer 2
PollRaises_Propagate ==
    /\ det_pc = "polling"
    /\ det_polls' = Append(det_polls, "raised")
    /\ det_raised' = det_raised \cup {1}
    /\ det_layers' = Append(det_layers, 2)
    /\ det_pc' = "filter_events"
    /\ UNCHANGED <<det_attempt, det_results, det_return, det_how>>

\* get_query_results raises: except Exception, return []
PollRaises ==
    /\ det_pc = "polling"
    /\ det_polls' = Append(det_polls, "raised")
    /\ det_return' = <<>>
    /\ det_how' = "poll_raised"
    /\ det_pc' = "done"
    /\ UNCHANGED <<det_attempt, det_results, det_layers, det_raised>>

\* asyncio.sleep(2) returns: the next attempt, or return [] after the loop
PollSleepReturns ==
    /\ det_pc = "sleeping"
    /\ det_attempt' = det_attempt + 1
    /\ IF det_attempt + 1 < poll_max_attempts
       THEN /\ det_pc' = "polling"
            /\ UNCHANGED <<det_return, det_how>>
       ELSE /\ det_return' = <<>>
            /\ det_how' = "exhausted"
            /\ det_pc' = "done"
    /\ UNCHANGED <<det_polls, det_results, det_layers, det_raised>>

\* filter_log_events returns these events
FilterEventsOk(log_events) ==
    /\ det_pc = "filter_events"
    /\ det_results' = log_events
    /\ det_return' = ParseRows(log_events)
    /\ det_how' = "layer2"
    /\ det_pc' = "done"
    /\ UNCHANGED <<det_attempt, det_polls, det_layers, det_raised>>

\* filter_log_events raises: layer 3 is called
FilterEventsRaises ==
    /\ det_pc = "filter_events"
    /\ det_raised' = det_raised \cup {2}
    /\ det_layers' = Append(det_layers, 3)
    /\ det_pc' = "content"
    /\ UNCHANGED <<det_attempt, det_polls, det_results, det_return, det_how>>

\* detect_tools_layer3_content: return []
Layer3Returns ==
    /\ det_pc = "content"
    /\ det_return' = <<>>
    /\ det_how' = "layer3"
    /\ det_pc' = "done"
    /\ UNCHANGED <<det_attempt, det_polls, det_results, det_layers, det_raised>>

----------------------------------------------------------------------------
(* Specifications *)

\* the agents of the other modules
moduleVars == <<troubleVars, specialistVars, detectorVars>>

vars == <<gateVars, invokerVars, discoveryVars, bridgeVars, sessionVars, moduleVars>>

\* The agents of the other modules, nothing asked of them yet
InitModules == InitTrouble /\ InitSpecialist /\ InitDetector

\* A host that HostAgent.create has returned, nothing asked of it yet
Init ==
    InitGate /\ InitInvoker /\ InitDiscovered /\ InitBridge /\ InitSessions /\ InitModules

\* A host that HostAgent.__init__ has built, before its discovery
InitHost ==
    InitGate /\ InitRequests /\ InitDiscovery /\ InitBridge /\ InitSessions /\ InitModules

GateIdle ==
    UNCHANGED <<sem, waiters, holders, last_api_call_time, pc, retry_count,
                wakeAt, events, out, calls, waits, outcomes>>

\* a step of stream or of the clock alone
GateOnly == UNCHANGED <<invokerVars, discoveryVars, bridgeVars, sessionVars, moduleVars>>
\* a step of _send_message_impl alone
InvokerOnly ==
    UNCHANGED now /\ GateIdle /\ UNCHANGED <<discoveryVars, bridgeVars, sessionVars, moduleVars>>
\* a step of invoke, of the producer task or of the consumer alone
BridgeOnly ==
    UNCHANGED now /\ GateIdle /\ UNCHANGED <<invokerVars, discoveryVars, sessionVars, moduleVars>>
\* a step of _async_init_components alone
DiscoveryOnly ==
    UNCHANGED now /\ GateIdle /\ UNCHANGED <<requestVars, bridgeVars, sessionVars, moduleVars>>
\* a step of stream inside the producer task
InTask == TaskStream /\ UNCHANGED <<invokerVars, discoveryVars, sessionVars, moduleVars>>
\* a step of one of several invocations alone
SessionOnly ==
    UNCHANGED now /\ GateIdle /\ UNCHANGED <<invokerVars, discoveryVars, bridgeVars, moduleVars>>
\* a step of the agent of module 2 alone
TroubleOnly ==
    /\ UNCHANGED now /\ GateIdle
    /\ UNCHANGED <<invokerVars, discoveryVars, bridgeVars, sessionVars, specialistVars,
                   detectorVars>>
\* a step of a specialist agent alone
SpecialistOnly ==
    /\ UNCHANGED now /\ GateIdle
    /\ UNCHANGED <<invokerVars, discoveryVars, bridgeVars, sessionVars, troubleVars,
                   detectorVars>>
\* a step of the tool detector alone
DetectorOnly ==
    /\ UNCHANGED now /\ GateIdle
    /\ UNCHANGED <<invokerVars, discoveryVars, bridgeVars, sessionVars, troubleVars,
                   specialistVars>>
\* a step of the clock alone
ClockOnly ==
    UNCHANGED <<invokerVars, discoveryVars, bridgeVars, sessionVars, moduleVars>>

\* One call of stream on a fresh host, followed to the end of its retry budget
\* (it is the first call and the only one: it neither waits for a permit nor
\* sleeps for the spacing, so StreamResume and SpacingWake have no step here)
Next ==
    \/ StreamEnter(1) /\ GateOnly
    \/ \E hasData \in BOOLEAN : EngineEvent(1, hasData) /\ GateOnly
    \/ EngineOk(1) /\ GateOnly
    \/ \E e \in Errors : EngineFail(1, e) /\ GateOnly
    \/ BackoffWake(1) /\ GateOnly
    \/ Tick(MaxTime) /\ GateOnly

Spec == Init /\ [][Next]_vars

\* What the engine raises during a burst
BurstErrors == {"Throttling", "AccessDenied"}

RECURSIVE SumCalls(_)
SumCalls(n) == IF n = 0 THEN 0 ELSE calls[n] + SumCalls(n - 1)

\* the burst has engine calls left
BurstBudget == SumCalls(NumCallers) < MaxBurstCalls

\* A burst of simultaneous calls of stream
NextBurst ==
    \/ \E c \in Callers : BurstBudget /\ StreamEnter(c) /\ GateOnly
    \/ \E c \in Callers : BurstBudget /\ StreamResume(c) /\ GateOnly
    \/ \E c \in Callers : BurstBudget /\ SpacingWake(c) /\ GateOnly
    \/ \E c \in Callers : \E hasData \in BOOLEAN : EngineEvent(c, hasData) /\ GateOnly
    \/ \E c \in Callers : EngineOk(c) /\ GateOnly
    \/ \E c \in Callers : \E e \in BurstErrors : EngineFail(c, e) /\ GateOnly
    \/ \E c \in Callers : BurstBudget /\ BackoffWake(c) /\ GateOnly
    \/ Tick(BurstMaxTime) /\ GateOnly

SpecBurst == Init /\ [][NextBurst]_vars

\* some invocation is in a retry sleep that may not return yet
RetrySleepPending == \E i \in Invokes : ipc[i] = "retry_sleep" /\ now < iwake[i]

\* some call of stream is in a sleep (spacing or backoff) that may not return yet
SleepPending ==
    \E c \in Callers : pc[c] \in {"spacing", "backoff"} /\ now < wakeAt[c]

\* the latest moment a pending sleep may return from
LastWake ==
    CHOOSE t \in {wakeAt[c] : c \in Callers} : \A c \in Callers : wakeAt[c] <= t

MaxThrottles == 1     \* rate-limiting failures the engine answers a burst with

RECURSIVE SumRetries(_)
SumRetries(n) == IF n = 0 THEN 0 ELSE retry_count[n] + SumRetries(n - 1)

\* what the engine may raise now: it stops rate limiting after MaxThrottles
EngineErrorsNow ==
    IF SumRetries(NumCallers) < MaxThrottles THEN BurstErrors ELSE {"AccessDenied"}

\* Simultaneous calls of stream, each followed to its end.  The clock is
\* followed while a sleep is pending.
NextGate ==
    \/ \E c \in Callers : StreamEnter(c) /\ GateOnly
    \/ \E c \in Callers : StreamResume(c) /\ GateOnly
    \/ \E c \in Callers : SpacingWake(c) /\ GateOnly
    \/ \E c \in Callers : EngineOk(c) /\ GateOnly
    \/ \E c \in Callers : \E e \in EngineErrorsNow : EngineFail(c, e) /\ GateOnly
    \/ \E c \in Callers : BackoffWake(c) /\ GateOnly
    \/ SleepPending /\ Tick(LastWake) /\ GateOnly

\* The event loop runs whatever is ready to run, and every engine call ends
SpecGateFair == Init /\ [][NextGate]_vars /\ WF_vars(NextGate)

\* One call of stream on a host after create(), with everything the engine
\* may raise.  The clock is followed while the backoff sleep is pending.
NextCall ==
    \/ StreamEnter(1) /\ GateOnly
    \/ \E hasData \in BOOLEAN : EngineEvent(1, hasData) /\ GateOnly
    \/ EngineOk(1) /\ GateOnly
    \/ \E e \in Errors : EngineFail(1, e) /\ GateOnly
    \/ BackoffWake(1) /\ GateOnly
    \/ SleepPending /\ Tick(LastWake) /\ GateOnly

MaxStreamEvents == 3     \* events the engine emits in one attempt of a followed call

\* One call of stream followed chunk by chunk: the engine emits up to
\* MaxStreamEvents events in an attempt and then ends or raises.  The clock
\* is followed while the backoff sleep is pending.
NextOutput ==
    \/ StreamEnter(1) /\ GateOnly
    \/ \E hasData \in BOOLEAN : EngineEmits(1, hasData, MaxStreamEvents) /\ GateOnly
    \/ EngineOk(1) /\ GateOnly
    \/ \E e \in Errors : EngineFail(1, e) /\ GateOnly
    \/ BackoffWake(1) /\ GateOnly
    \/ SleepPending /\ Tick(LastWake) /\ GateOnly

SpecOutput == Init /\ [][NextOutput]_vars

\* Every engine call ends, every sleep returns, and the event loop runs
\* whatever is ready to run
SpecCallFair == Init /\ [][NextCall]_vars /\ WF_vars(NextCall)

\* Invocations of _send_message_impl, interleaved on the event loop.  The
\* clock is followed while a retry sleep is pending.
NextInvoker ==
    \/ \E i \in Invokes : \E a \in AgentNames, t \in Tasks :
          InvokeEnter(i, a, t) /\ InvokerOnly
    \/ \E i \in Invokes : \E resp \in Responses : SendReturns(i, resp) /\ InvokerOnly
    \/ \E i \in Invokes : \E e \in SendErrors : SendRaises(i, e) /\ InvokerOnly
    \/ \E i \in Invokes : RetryWake(i) /\ InvokerOnly
    \/ RetrySleepPending /\ Tick(InvokerMaxTime) /\ GateOnly

SpecInvoker == Init /\ [][NextInvoker]_vars

\* One invocation of the entry point: the producer task runs stream (the first
\* and only call on its host) and feeds the bridge, stream_output drains it
NextBridge ==
    \/ \E s \in Sessions, r \in TokenResults : Invoke(s, r) /\ BridgeOnly
    \/ TaskStart /\ BridgeOnly
    \/ \E o \in CreateOutcomes : TaskCreateAgent(o) /\ BridgeOnly
    \/ StreamEnter(1) /\ InTask
    \/ \E hasData \in BOOLEAN : EngineEvent(1, hasData) /\ InTask
    \/ EngineOk(1) /\ InTask
    \/ \E e \in Errors : EngineFail(1, e) /\ InTask
    \/ BackoffWake(1) /\ InTask
    \/ TaskFinish /\ BridgeOnly
    \/ ConsumerGet /\ BridgeOnly
    \/ ConsumerAwaitTask /\ BridgeOnly
    \/ Tick(BridgeMaxTime) /\ GateOnly

SpecBridge == Init /\ [][NextBridge]_vars

\* The discovery of a new host, run from HostAgent.create.  The clock is
\* followed while a retry sleep is pending.
NextDiscovery ==
    \/ \E addrs \in AddressLists : DiscoveryStart(addrs) /\ DiscoveryOnly
    \/ \E o \in ProbeOutcomes : ProbeEnds(o) /\ DiscoveryOnly
    \/ \E ok \in BOOLEAN : FetchReturns(ok) /\ DiscoveryOnly
    \/ \E e \in FetchErrors : FetchRaises(e) /\ DiscoveryOnly
    \/ FetchRetryWake /\ DiscoveryOnly
    \/ dpc = "sleeping" /\ Tick(dwake) /\ GateOnly

SpecDiscovery == InitHost /\ [][NextDiscovery]_vars

\* Every network call of discovery ends (httpx applies its timeouts) and the
\* event loop runs whatever is ready to run
SpecDiscoveryFair == SpecDiscovery /\ WF_vars(NextDiscovery)

\* what the engine asks of a host without specialists: a name that a
\* reachable specialist would have had, and an unknown name with a task that
\* has no text
DegradedRequests == {<<"A", "check host X">>, <<"Z", "<no text>">>}

\* The discovery of a new host, and the delegations the engine asks for once
\* create() has returned a host with an empty registry
NextDegraded ==
    \/ \E addrs \in AddressLists : DiscoveryStart(addrs) /\ DiscoveryOnly
    \/ \E o \in ProbeOutcomes : ProbeEnds(o) /\ DiscoveryOnly
    \/ \E ok \in BOOLEAN : FetchReturns(ok) /\ DiscoveryOnly
    \/ \E e \in FetchErrors : FetchRaises(e) /\ DiscoveryOnly
    \/ FetchRetryWake /\ DiscoveryOnly
    \/ dpc = "sleeping" /\ Tick(dwake) /\ GateOnly
    \/ \E i \in Invokes : \E r \in DegradedRequests :
          /\ dpc = "done"
          /\ remote_agent_connections = {}
          /\ InvokeEnter(i, r[1], r[2])
          /\ InvokerOnly

SpecDegraded == InitHost /\ [][NextDegraded]_vars

\* what the engine asks for while it answers one query: a registered
\* specialist and a name that is not registered
RouterRequests == {<<"A", "check host X">>, <<"Z", "check host X">>}
\* what the specialist answers: an error response, or a Task with artifacts
RouterResponses ==
    { <<"nonsuccess">>, <<"task", << <<"p1", "p2">>, <<>>, <<"p3">> >> >> }

\* the latest moment a pending retry sleep of the invoker may return from
LastRetryWake ==
    CHOOSE t \in {iwake[i] : i \in Invokes} : \A i \in Invokes : iwake[i] <= t

\* One call of stream on a host after create(): while the engine runs it
\* calls send_message_tool, whose invocations of _send_message_impl are
\* interleaved on the event loop.  The clock is followed while a sleep is
\* pending.
NextRouter ==
    \/ StreamEnter(1) /\ GateOnly
    \/ \E hasData \in BOOLEAN : EngineEvent(1, hasData) /\ GateOnly
    \/ EngineOk(1) /\ GateOnly
    \/ \E e \in EngineErrorsNow : EngineFail(1, e) /\ GateOnly
    \/ BackoffWake(1) /\ GateOnly
    \/ \E i \in Invokes : \E r \in RouterRequests :
          pc[1] = "calling" /\ InvokeEnter(i, r[1], r[2]) /\ InvokerOnly
    \/ \E i \in Invokes : \E resp \in RouterResponses :
          pc[1] = "calling" /\ SendReturns(i, resp) /\ InvokerOnly
    \/ \E i \in Invokes : \E e \in SendErrors :
          pc[1] = "calling" /\ SendRaises(i, e) /\ InvokerOnly
    \/ \E i \in Invokes : pc[1] = "calling" /\ RetryWake(i) /\ InvokerOnly
    \/ SleepPending /\ Tick(LastWake) /\ GateOnly
    \/ RetrySleepPending /\ Tick(LastRetryWake) /\ GateOnly

SpecRouter == Init /\ [][NextRouter]_vars

\* Invocations of the entry point that follow or overlap each other on one
\* process, each with its producer task and its consumer
NextSessions ==
    \/ \E k \in Invocations : \E s \in Sessions, r \in TokenResults, carried \in BOOLEAN :
          SessionInvoke(k, s, r, carried) /\ SessionOnly
    \/ \E k \in Invocations : SessionTaskStart(k) /\ SessionOnly
    \/ \E k \in Invocations : SessionTaskPut(k) /\ SessionOnly
    \/ \E k \in Invocations : SessionTaskFinish(k) /\ SessionOnly
    \/ \E k \in Invocations : SessionConsumerGet(k) /\ SessionOnly
    \/ \E k \in Invocations : SessionConsumerAwaitTask(k) /\ SessionOnly

SpecSessions == Init /\ [][NextSessions]_vars

\* One call of stream of the agent of module 2, with everything its engine
\* may raise.  The clock is followed while the retry sleep is pending.
NextTrouble ==
    \/ TsStreamEnter /\ TroubleOnly
    \/ \E hasData \in BOOLEAN : TsEngineEmits(hasData, MaxEvents) /\ TroubleOnly
    \/ TsEngineOk /\ TroubleOnly
    \/ \E e \in TsErrors : TsEngineFail(e) /\ TroubleOnly
    \/ TsRetryWake /\ TroubleOnly
    \/ (ts_pc = "sleeping" /\ now * 10 < ts_wake) /\ Tick(now + 1) /\ ClockOnly

SpecTrouble == Init /\ [][NextTrouble]_vars

\* Every engine call ends, every sleep returns, and the event loop runs
\* whatever is ready to run
SpecTroubleFair == SpecTrouble /\ WF_vars(NextTrouble)

\* One query to one of the specialist agents, with everything its engine may
\* raise
NextSpecialist ==
    \/ \E a \in Specialists : SpStreamEnter(a) /\ SpecialistOnly
    \/ \E hasData \in BOOLEAN : SpEngineEmits(hasData, MaxSpecialistEvents) /\ SpecialistOnly
    \/ SpEngineOk /\ SpecialistOnly
    \/ \E e \in TsErrors : SpEngineFail(e) /\ SpecialistOnly

SpecSpecialist == Init /\ [][NextSpecialist]_vars

\* One tool detection, with everything the log service may answer
NextDetector ==
    \/ Layer1Enter /\ DetectorOnly
    \/ StartQueryOk /\ DetectorOnly
    \/ StartQueryRaises /\ DetectorOnly
    \/ \E status \in {"Running", "Complete", "Failed"}, results \in ResultLists :
          PollReturns(status, results) /\ DetectorOnly
    \/ PollRaises /\ DetectorOnly
    \/ PollSleepReturns /\ DetectorOnly
    \/ \E log_events \in ResultLists : FilterEventsOk(log_events) /\ DetectorOnly
    \/ FilterEventsRaises /\ DetectorOnly
    \/ Layer3Returns /\ DetectorOnly

\* Every call to the log service ends and every sleep returns
SpecDetectorFair == Init /\ [][NextDetector]_vars /\ WF_vars(NextDetector)

\* The event loop runs whatever is ready to run: a step that stays possible
\* is taken
SpecBridgeFair == SpecBridge /\ WF_vars(NextBridge)

----------------------------------------------------------------------------
(* Properties of the dispatch gate *)

OverloadErrors == {"Throttling", "TooMany"}       \* rate-limiting errors
TerminalErrors == {"AccessDenied", "Validation"}  \* permission and validation errors

Last(q) == q[Len(q)]
CountKind(o, k) == Cardinality({i \in 1..Len(o) : o[i].kind = k})
Notices(o) == SelectSeq(o, LAMBDA ch : ch.kind # "data")
AllOverload(q) == Len(q) > 0 /\ \A i \in 1..Len(q) : q[i] \in OverloadErrors
HoldsPermitStates == {"granted", "spacing", "calling", "backoff"}

\* C2: at most 2 permits are held and at most 2 engine calls are in flight at
\* any time, whatever the burst of callers, and an engine call is in flight
\* only while its caller holds a permit.
C2_PermitBound ==
    /\ Cardinality(holders) <= 2
    /\ Cardinality({c \in Callers : pc[c] = "calling"}) <= 2
    /\ \A c \in Callers : pc[c] = "calling" => c \in holders

\* Two engine calls in flight, a third caller suspended at the gate.
C2_Witness ==
    /\ Cardinality({c \in Callers : pc[c] = "calling" /\ c \in holders}) = 2
    /\ \E c \in Callers : pc[c] = "wait_permit"

\* C3: every engine call starts at least the minimum spacing (1 s) after the
\* engine call started before it (last_api_call_time is written at each call
\* start, so it is the start time of the previous call).
C3_MinSpacing ==
    [][\A c \in Callers :
          calls'[c] > calls[c] => now' - last_api_call_time >= 1]_vars

\* C4: with a rate-limiting failure on every attempt the call makes exactly 3
\* retries after the first attempt, sleeping 2, 4 and 8 seconds before them,
\* then yields one final notice and ends; a fifth engine call never happens.
C4_ThrottledEveryAttempt ==
    \A c \in Callers :
        /\ calls[c] <= 4
        /\ AllOverload(outcomes[c]) =>
              /\ Len(outcomes[c]) <= 4
              /\ Len(waits[c]) <= 3
              /\ \A i \in 1..Len(waits[c]) : waits[c][i] = <<2, 4, 8>>[i]
              /\ Len(waits[c]) = IF Len(outcomes[c]) = 4 THEN 3 ELSE Len(outcomes[c])
              /\ Len(outcomes[c]) = 4 =>
                    /\ pc[c] = "done"
                    /\ calls[c] = 4
                    /\ Last(out[c]) = Chunk("exhausted", "", 3, 0)
                    /\ CountKind(out[c], "exhausted") = 1
                    /\ CountKind(out[c], "error") = 0
              /\ Len(outcomes[c]) < 4 => pc[c] \in {"backoff", "calling"}

\* The retry budget is used up: four rate-limited attempts, the call has ended.
C4_Witness ==
    /\ pc[1] = "done"
    /\ Len(outcomes[1]) = 4
    /\ AllOverload(outcomes[1])
    /\ waits[1] = <<2, 4, 8>>

ThreeOverloadsThenOk(c) ==
    /\ Len(outcomes[c]) = 4
    /\ AllOverload(SubSeq(outcomes[c], 1, 3))
    /\ outcomes[c][4] = "ok"

\* C5 as stated: three rate-limited attempts and a successful fourth yield
\* exactly two interim backoff notices and no final notice.
C5_TwoNotices ==
    \A c \in Callers :
        ThreeOverloadsThenOk(c) =>
            /\ CountKind(out[c], "retry") = 2
            /\ CountKind(out[c], "exhausted") = 0

\* C5 amended: three rate-limited attempts and a successful fourth yield
\* exactly three interim backoff notices (2 s, 4 s, 8 s; attempts 1, 2, 3), one
\* per failed attempt, no final notice and no error notice; the output of the
\* successful attempt follows the last notice and appears once.
C5_ThreeNotices ==
    \A c \in Callers :
        ThreeOverloadsThenOk(c) =>
            /\ pc[c] = "done"
            /\ Notices(out[c]) = <<Chunk("retry", "", 2, 1), Chunk("retry", "", 4, 2),
                                   Chunk("retry", "", 8, 3)>>
            /\ \A i, j \in 1..Len(out[c]) :
                  (out[c][i].kind = "data" /\ out[c][i].n = 4) =>
                      /\ out[c][j].kind = "retry" => j < i
                      /\ (i # j) => out[c][i] # out[c][j]

\* Three rate-limited attempts, then a fourth that delivered data and succeeded.
C5_Witness ==
    /\ ThreeOverloadsThenOk(1)
    /\ pc[1] = "done"
    /\ \E i \in 1..Len(out[1]) : out[1][i].kind = "data" /\ out[1][i].n = 4

\* C6: a failure that is not rate limiting, on the first or on a later attempt,
\* ends the call at once: one error notice naming it is the last chunk, the
\* engine is not called again and no backoff sleep follows it.
C6_TerminalError ==
    \A c \in Callers :
        \A i \in 1..Len(outcomes[c]) :
            outcomes[c][i] \in TerminalErrors =>
                /\ i = Len(outcomes[c])
                /\ pc[c] = "done"
                /\ calls[c] = i
                /\ Len(waits[c]) = i - 1
                /\ Last(out[c]) = Chunk("error", outcomes[c][i], 0, 0)
                /\ CountKind(out[c], "error") = 1
                /\ CountKind(out[c], "exhausted") = 0

\* A permission failure on a retried attempt has ended the call.
C6_Witness ==
    /\ Len(outcomes[1]) = 2
    /\ outcomes[1][1] \in OverloadErrors
    /\ outcomes[1][2] = "AccessDenied"
    /\ pc[1] = "done"

\* C7 as stated: the permit is given back before every next attempt and before
\* the return, so a caller in a backoff sleep, or one that has returned, holds
\* no permit.
C7_ReleasedBetweenAttempts ==
    \A c \in Callers : pc[c] \in {"backoff", "done"} => c \notin holders

\* C7 amended: the permit is given back on every way out of stream (success,
\* exhausted retries, terminal failure) before the call returns, and only
\* there: from the acquire on it is held through the spacing sleep, every
\* attempt and every backoff sleep.
C7_ReleasedAtExit ==
    /\ \A c \in Callers :
          /\ pc[c] = "done" => c \notin holders
          /\ pc[c] \in HoldsPermitStates => c \in holders
          /\ pc[c] \in {"idle", "wait_permit"} => c \notin holders
    /\ sem = 2 - Cardinality(holders)

\* One caller has returned after a failure while another sleeps in its backoff.
C7_Witness ==
    \E c, d \in Callers :
        /\ pc[c] = "done"
        /\ Len(outcomes[c]) > 0
        /\ Last(outcomes[c]) # "ok"
        /\ pc[d] = "backoff"
        /\ d \in holders

----------------------------------------------------------------------------
(* Properties of the remote call invoker *)

SamePair(i, j) == iagent[i] = iagent[j] /\ itask[i] = itask[j]

RECURSIVE SendsUpTo(_, _, _)
\* client.send_message calls made for (a, t) by the invocations 1..n
SendsUpTo(n, a, t) ==
    IF n = 0 THEN 0
    ELSE (IF ipc[n] # "idle" /\ iagent[n] = a /\ itask[n] = t THEN isends[n] ELSE 0)
         + SendsUpTo(n - 1, a, t)

SendsFor(a, t) == SendsUpTo(NumInvokes, a, t)

\* C1 as stated, for a registered agent and a task whose envelope can be
\* built: exactly one client.send_message call is made for an identical
\* (agent, task), however often it is submitted, and every submission after
\* the first returns the duplicate sentinel.
C1_ExactlyOneRpc ==
    \A i \in Invokes :
        (/\ ipc[i] # "idle"
         /\ iagent[i] \in remote_agent_connections
         /\ EnvelopeValid(itask[i])) =>
            /\ SendsFor(iagent[i], itask[i]) = 1
            /\ \A j \in Invokes :
                  (j > i /\ ipc[j] # "idle" /\ SamePair(i, j)) =>
                      iresult[j] = DuplicateSentinel

\* C1 amended: of the submissions of an identical (agent, task) only the
\* first is dispatched.  For a registered agent it makes one
\* client.send_message call, and a second one only as the retry after the
\* first call failed with a rate-limiting error (none when building the
\* envelope raised), so one or two calls reach the network; every later
\* submission makes no call and returns the duplicate sentinel, also while
\* the first is still in flight.  For an unregistered agent no call is made
\* and every submission returns agent-not-found.
C1_OneDispatch ==
    \A i \in Invokes :
        ipc[i] # "idle" =>
            /\ isends[i] <= 2
            /\ SendsFor(iagent[i], itask[i]) <= 2
            /\ isends[i] = 2 => (Len(ierrs[i]) >= 1 /\ ierrs[i][1] \in OverloadErrors)
            /\ (/\ iagent[i] \in remote_agent_connections
                /\ EnvelopeValid(itask[i])
                /\ \A k \in Invokes : k < i => ~SamePair(k, i)) => isends[i] >= 1
            /\ iagent[i] \notin remote_agent_connections =>
                  (isends[i] = 0 /\ iresult[i] = AgentNotFound(iagent[i]))
            /\ \A j \in Invokes :
                  (j > i /\ ipc[j] # "idle" /\ SamePair(i, j)) =>
                      /\ isends[j] = 0
                      /\ ipc[j] = "done"
                      /\ iagent[i] \in remote_agent_connections =>
                            iresult[j] = DuplicateSentinel

\* The same (agent, task) submitted twice, the second time while the first
\* call was in flight: one dispatch, one sentinel.
C1_Witness ==
    /\ ipc[1] = "sending"
    /\ iagent[1] = "A" /\ itask[1] = "check host X"
    /\ SamePair(1, 2)
    /\ ipc[2] = "done"
    /\ iresult[2] = DuplicateSentinel
    /\ SendsFor("A", "check host X") = 1

\* C9: no failure leaves stream or _send_message_impl as a raised exception:
\* a call of stream always ends by returning, and an invocation of
\* _send_message_impl always ends with a returned value.
C9_NothingRaised ==
    /\ \A c \in Callers : pc[c] \in {"idle", "wait_permit", "done"} \cup HoldsPermitStates
    /\ \A i \in Invokes : ipc[i] # "raised"

----------------------------------------------------------------------------
(* Properties of the entry point and the streaming bridge *)

ConsumerLoopEnded == cpc \in {"awaiting_task", "closed", "raised"}

\* C8: whichever way the producer task host_agent_task ends, finish() has
\* been signalled on the bridge, so that the consumer loop can end.
C8_FinishOnEveryExit ==
    tpc \in {"finished", "raised"} => queue_finished

\* C10: the consumer loop ends only after finish() was signalled, the producer
\* task has put its last chunk, and every chunk put was delivered, in order:
\* an empty queue alone never ends it.
C10_EndsAfterFinishAndDrain ==
    ConsumerLoopEnded =>
        /\ queue_finished
        /\ tpc = "finished"
        /\ received = put_log
        /\ queue_items = <<>>

\* The loop has ended after delivering a backoff notice and what followed it.
C10_Witness ==
    /\ cpc = "closed"
    /\ Len(received) >= 2
    /\ received[1].kind = "retry"
    /\ received = out[1]

\* Chunks put on the bridge and not yet taken by the consumer
Pending == SelectSeq(queue_items, LAMBDA ch : ch # EndMarker)

\* C11: within one producer the consumer receives the chunks stream yielded
\* exactly once and in emission order, at every moment of every interleaving:
\* every chunk stream yielded has been put, and what was received followed by
\* what still waits on the bridge is the sequence put; once the consumer loop
\* has ended the caller has received exactly what stream yielded.
C11_InOrderExactlyOnce ==
    /\ received \o Pending = put_log
    /\ tpc = "streaming" => put_log = out[1]
    /\ out[1] # <<>> => put_log = out[1]
    /\ (ConsumerLoopEnded /\ out[1] # <<>>) => received = out[1]

\* The consumer has taken some chunks while others wait and the producer,
\* after a backoff notice, is still streaming.
C11_Witness ==
    /\ tpc = "streaming"
    /\ Len(received) >= 1
    /\ Len(Pending) >= 1
    /\ Len(put_log) >= 3
    /\ \E i \in 1..Len(put_log) : put_log[i].kind = "retry"

\* C12: an exception raised inside the producer task host_agent_task
\* surfaces to the owner stream_output at its "await task", which follows the
\* consumer loop.
C12_ExceptionSurfaces ==
    [](tpc = "raised" => <>(cpc = "raised"))

----------------------------------------------------------------------------
(* Properties of discovery *)

AllFail(log) == Len(log) > 0 /\ \A i \in 1..Len(log) : log[i] = "fail"
FailureStatuses == {"connection_error", "timeout_error", "http_error", "general_error"}
\* positions whose address was recorded as a success
Succeeded == {k \in 1..Len(connection_results) : connection_results[k].status = "success"}
\* the descriptors the registry holds
Registered == {cards[n] : n \in DOMAIN cards}

\* C13: an address whose agent card fetch always fails is tried exactly 3
\* times, with a sleep of 2 s after the first failure, 4 s after the second
\* and none after the third; it is then recorded as failed and absent from
\* the registry, and discovery goes on with the next address (or ends, past
\* the last one).
C13_ThreeAttemptsThenSkipped ==
    \A k \in 1..Len(fetch_log) :
        /\ Len(fetch_log[k]) <= 3
        /\ AllFail(fetch_log[k]) =>
              /\ Len(fetch_waits[k]) <= 2
              /\ \A i \in 1..Len(fetch_waits[k]) : fetch_waits[k][i] = <<2, 4>>[i]
              /\ Len(fetch_waits[k]) = IF Len(fetch_log[k]) = 3 THEN 2 ELSE Len(fetch_log[k])
              /\ Len(fetch_log[k]) < 3 => (didx = k /\ dpc \in {"sleeping", "fetching"})
              /\ Len(fetch_log[k]) = 3 =>
                    /\ Len(connection_results) >= k
                    /\ connection_results[k].address = remote_agent_addresses[k]
                    /\ connection_results[k].status \in FailureStatuses
                    /\ \A n \in DOMAIN cards : cards[n].url # remote_agent_addresses[k]
                    /\ IF k < Len(remote_agent_addresses)
                       THEN didx > k /\ Len(fetch_log) > k
                       ELSE dpc = "done"

\* The first address failed three times; discovery went on and registered the
\* second.
C13_Witness ==
    /\ dpc = "done"
    /\ Len(fetch_log) = 2
    /\ fetch_log[1] = <<"fail", "fail", "fail">>
    /\ fetch_waits[1] = <<2, 4>>
    /\ connection_results[2].status = "success"
    /\ DOMAIN cards = {connection_results[2].agent_name}

\* Discovery takes the addresses in list order, one result each
InListOrder ==
    /\ Len(connection_results) <= Len(remote_agent_addresses)
    /\ \A k \in 1..Len(connection_results) :
          /\ connection_results[k].address = remote_agent_addresses[k]
          /\ Len(fetch_log[k]) >= 1
    /\ dpc \in {"probing", "fetching", "sleeping"} =>
          (Len(connection_results) = didx - 1 /\ Len(fetch_log) = didx)
    /\ dpc = "done" => Len(connection_results) = Len(remote_agent_addresses)

\* C14 as stated: whatever fails (health check, fetch, connection
\* construction), every address is attempted in list order, discovery ends,
\* and the registry then holds exactly the descriptors of the addresses that
\* succeeded.
C14_AllSucceededRegistered ==
    /\ [](InListOrder /\ (dpc = "done" =>
            Registered = {CardOf(remote_agent_addresses[k]) : k \in Succeeded}))
    /\ (dpc # "idle" ~> dpc = "done")

\* the last position recorded as a success whose card has the name n
LastSucceeded(n) ==
    CHOOSE k \in Succeeded :
        /\ CardOf(remote_agent_addresses[k]).name = n
        /\ \A j \in Succeeded : CardOf(remote_agent_addresses[j]).name = n => j <= k

\* C14 amended: whatever fails, every address is attempted in list order and
\* discovery ends; the registry then holds one entry for each name among the
\* descriptors of the addresses that succeeded, and no other: the descriptor
\* of the last succeeding address that served this name (an earlier
\* descriptor of the same name is overwritten).
C14_LastSucceededRegistered ==
    /\ [](InListOrder /\ (dpc = "done" =>
            /\ DOMAIN cards = {CardOf(remote_agent_addresses[k]).name : k \in Succeeded}
            /\ remote_agent_connections = DOMAIN cards
            /\ \A n \in DOMAIN cards :
                  cards[n] = CardOf(remote_agent_addresses[LastSucceeded(n)])))
    /\ (dpc # "idle" ~> dpc = "done")

\* Discovery has ended after an unreachable first address and a second one
\* that was registered.
C14_Witness ==
    /\ dpc = "done"
    /\ Len(connection_results) = 2
    /\ connection_results[1].status = "connection_error"
    /\ connection_results[2].status = "success"
    /\ Registered = {CardOf(remote_agent_addresses[2])}

----------------------------------------------------------------------------
(* Properties of the dedup set and of the invoker's retry *)

InFlight(i) == ipc[i] \in {"sending", "retry_sleep"}
Entered(i) == ipc[i] # "idle"
\* the invocation ended with a failure of the call: an RPC error (also after
\* the retry) or a non-success response
EndedInFailure(i) ==
    ipc[i] = "done" /\ iresult[i].kind \in {"send_error", "non_success"}

\* C15: the dedup set only grows: no step of the invoker (success, RPC
\* failure, retry, duplicate hit, not-found) removes a key from it.
C15_DedupSetGrows ==
    [][completed_requests \subseteq completed_requests']_vars

\* A request has failed, its repeat has hit the dedup set, and its key is
\* still recorded.
C15_Witness ==
    /\ EndedInFailure(1)
    /\ ipc[2] = "done"
    /\ iresult[2] = DuplicateSentinel
    /\ RequestKey(iagent[1], itask[1]) \in completed_requests

\* C16: the key is in the dedup set from before the first RPC is attempted,
\* and check and insertion are one step: while an invocation is in flight
\* (sending, or sleeping before its retry) its key is recorded, every later
\* invocation of the same (agent, task) has returned the sentinel without
\* sending, and no two invocations of the same (agent, task) are in flight.
C16_MarkedBeforeCall ==
    \A i \in Invokes :
        (InFlight(i) \/ isends[i] > 0) =>
            /\ RequestKey(iagent[i], itask[i]) \in completed_requests
            /\ \A j \in Invokes :
                  (j # i /\ Entered(j) /\ SamePair(i, j)) =>
                      /\ j > i
                      /\ isends[j] = 0
                      /\ ipc[j] = "done"
                      /\ iresult[j] = DuplicateSentinel

\* A duplicate arrived while the first invocation was sleeping before its
\* retry, and got the sentinel.
C16_Witness ==
    /\ ipc[1] = "retry_sleep"
    /\ Entered(2)
    /\ SamePair(1, 2)
    /\ iresult[2] = DuplicateSentinel
    /\ isends[2] = 0

\* C17: once an invocation for (agent, task) has ended in failure (RPC error,
\* non-success response, failed retry), every other invocation of the same
\* (agent, task) returns the sentinel and sends nothing.
C17_FailureStaysMarked ==
    \A i, j \in Invokes :
        (i # j /\ EndedInFailure(i) /\ Entered(j) /\ SamePair(i, j)) =>
            /\ iresult[j] = DuplicateSentinel
            /\ isends[j] = 0
            /\ ipc[j] = "done"

\* The first invocation failed twice with a rate-limiting error; its repeat
\* got the sentinel.
C17_Witness ==
    /\ ipc[1] = "done"
    /\ ierrs[1] = <<"TooMany", "TooMany">>
    /\ iresult[1] = SendError(iagent[1], "TooMany")
    /\ SamePair(1, 2)
    /\ iresult[2] = DuplicateSentinel

\* C18: an invocation naming an agent that is not registered returns
\* agent-not-found in the step it enters, sends nothing and leaves the dedup
\* set as it was.
C18_NotFoundLeavesSet ==
    [][\A i \in Invokes :
          (ipc[i] = "idle" /\ ipc'[i] # "idle"
              /\ iagent'[i] \notin remote_agent_connections) =>
                /\ ipc'[i] = "done"
                /\ iresult'[i] = AgentNotFound(iagent'[i])
                /\ isends'[i] = 0
                /\ completed_requests' = completed_requests]_vars

\* An unregistered agent was asked for after a request to a registered one
\* had been recorded: not found, the set holds the one key.
C18_Witness ==
    /\ iagent[1] = "A" /\ InFlight(1)
    /\ iagent[2] = "Z" /\ ipc[2] = "done"
    /\ iresult[2] = AgentNotFound("Z")
    /\ completed_requests = {RequestKey("A", itask[1])}

\* C19 as stated: the key is recorded before the agent name is resolved, so
\* the repeat of a request naming an unregistered agent returns the
\* duplicate sentinel.
C19_NotFoundThenSentinel ==
    \A i, j \in Invokes :
        (i < j /\ Entered(j) /\ SamePair(i, j)
            /\ iagent[i] \notin remote_agent_connections) =>
                iresult[j] = DuplicateSentinel

\* C19 amended: the key is recorded after the agent name is resolved, so a
\* request naming an unregistered agent occupies no dedup slot: its key is
\* not in the set, and every repeat of it returns agent-not-found again.
C19_NotFoundAgain ==
    \A i \in Invokes :
        (Entered(i) /\ iagent[i] \notin remote_agent_connections) =>
            /\ iresult[i] = AgentNotFound(iagent[i])
            /\ RequestKey(iagent[i], itask[i]) \notin completed_requests

\* The same request to an unregistered agent, made twice: not found twice.
C19_Witness ==
    /\ iagent[1] = "Z"
    /\ SamePair(1, 2)
    /\ ipc[2] = "done"
    /\ iresult[1] = AgentNotFound("Z")
    /\ iresult[2] = AgentNotFound("Z")

\* C20: one invocation makes at most 2 client.send_message calls; the second
\* is made only after the first failed with a rate-limiting error; a first
\* failure of another kind, and any failure of the second call, ends the
\* invocation with the error text.
C20_AtMostOneRetry ==
    \A i \in Invokes :
        /\ isends[i] <= 2
        /\ Len(ierrs[i]) <= isends[i]
        /\ isends[i] = 2 => (Len(ierrs[i]) >= 1 /\ ierrs[i][1] \in OverloadErrors)
        /\ (Len(ierrs[i]) >= 1 /\ ierrs[i][1] \notin OverloadErrors) =>
              /\ isends[i] = 1
              /\ ipc[i] = "done"
              /\ iresult[i] = SendError(iagent[i], ierrs[i][1])
        /\ Len(ierrs[i]) = 2 =>
              /\ isends[i] = 2
              /\ ipc[i] = "done"
              /\ iresult[i] = SendError(iagent[i], ierrs[i][2])

\* The retry was made after a rate-limiting failure and failed with a
\* permission error: the invocation has returned that error.
C20_Witness ==
    /\ ierrs[1] = <<"TooMany", "AccessDenied">>
    /\ isends[1] = 2
    /\ ipc[1] = "done"
    /\ iresult[1] = SendError(iagent[1], "AccessDenied")

----------------------------------------------------------------------------
(* Properties of the invoker's handling of responses *)

\* the invocation got a Task back
GotTask(i) == iresp[i][1] = "task"
\* no artifact of the response has a part
NoContent(artifacts) == \A k \in 1..Len(artifacts) : artifacts[k] = <<>>

\* C21: a response that is not a success carrying a Task ends the invocation:
\* the fixed non-success text is returned, nothing is raised, and no call is
\* made after the one that brought the response.
C21_NonSuccessTerminal ==
    \A i \in Invokes :
        iresp[i] = <<"nonsuccess">> =>
            /\ ipc[i] = "done"
            /\ iresult[i] = NonSuccessResult
            /\ isends[i] = Len(ierrs[i]) + 1
            /\ iretry[i] = Len(ierrs[i])

\* The retry after a rate-limiting error brought a non-success response.
C21_Witness ==
    /\ ierrs[1] = <<"TooMany">>
    /\ iresp[1] = <<"nonsuccess">>
    /\ isends[1] = 2
    /\ iresult[1] = NonSuccessResult

\* C22: for a Task response the invocation returns "No response received"
\* exactly when the response has no artifacts or only artifacts without
\* parts; with at least one part it returns the parts.
C22_NoResponseIffNoContent ==
    \A i \in Invokes :
        GotTask(i) =>
            /\ ipc[i] = "done"
            /\ (iresult[i] = NoResponseReceived) <=> NoContent(iresp[i][2])
            /\ ~NoContent(iresp[i][2]) =>
                  (iresult[i].kind = "parts" /\ iresult[i].parts # <<>>)

\* A Task whose only artifact has no parts was answered with the fixed text.
C22_Witness ==
    /\ iresp[1] = <<"task", << <<>> >> >>
    /\ iresult[1] = NoResponseReceived

RECURSIVE PartsBefore(_, _)
\* how many parts the artifacts before the k-th have
PartsBefore(artifacts, k) ==
    IF k <= 1 THEN 0 ELSE Len(artifacts[k - 1]) + PartsBefore(artifacts, k - 1)

\* part n of the response, counting through the artifacts in order
PartAt(artifacts, n) ==
    LET k == CHOOSE k \in 1..Len(artifacts) :
                 /\ PartsBefore(artifacts, k) < n
                 /\ n <= PartsBefore(artifacts, k) + Len(artifacts[k])
    IN artifacts[k][n - PartsBefore(artifacts, k)]

\* C23: for a Task response with content the result holds every part of
\* every artifact exactly once, in artifact order and in part order within
\* an artifact: it has as many parts as the response, and its n-th part is
\* the n-th part of the response; artifacts without parts add nothing.
C23_AllPartsInOrder ==
    \A i \in Invokes :
        (GotTask(i) /\ ~NoContent(iresp[i][2])) =>
            LET artifacts == iresp[i][2] IN
            /\ Len(iresult[i].parts) = PartsBefore(artifacts, Len(artifacts) + 1)
            /\ \A n \in 1..Len(iresult[i].parts) :
                  iresult[i].parts[n] = PartAt(artifacts, n)

\* Three parts in two artifacts around an empty one were returned in order.
C23_Witness ==
    /\ iresp[1] = <<"task", << <<"p1", "p2">>, <<>>, <<"p3">> >> >>
    /\ iresult[1] = PartsResult(<<"p1", "p2", "p3">>)

----------------------------------------------------------------------------
(* Properties of the entry point *)

\* C24: an invocation without a session id fails in invoke itself: it raises
\* before a producer task exists, so no consumer is returned, no host agent
\* is created (no discovery), the reasoning engine is never called and
\* nothing is put on the bridge; nothing starts any of this afterwards.
C24_SessionMandatory ==
    (vpc # "idle" /\ context_session_id = "") =>
        /\ vpc = "raised"
        /\ tpc = "none"
        /\ cpc = "none"
        /\ ~agent_ctx
        /\ pc[1] = "idle"
        /\ calls[1] = 0
        /\ put_log = <<>>

\* The gateway token was obtained, then the missing session id ended invoke.
C24_Witness ==
    /\ vpc = "raised"
    /\ context_session_id = ""
    /\ gateway_token_ctx = "token"
    /\ tpc = "none"

----------------------------------------------------------------------------
(* Liveness of the dispatch gate *)

\* C25: a caller that finds no free permit is suspended, not failed: while
\* it waits it has yielded nothing and no engine call of its own has started
\* or failed; and once the engine's calls end, every caller waiting at the
\* gate gets a permit and starts its engine call.
C25_WaitersServed ==
    /\ [](\A c \in Callers :
            pc[c] \in {"wait_permit", "granted"} =>
                (out[c] = <<>> /\ calls[c] = 0 /\ outcomes[c] = <<>>))
    /\ \A c \in Callers : (pc[c] = "wait_permit") ~> (pc[c] = "calling")

\* A waiter has been handed the permit of a caller that finished, while the
\* other holder sleeps in its backoff.
C25_Witness ==
    \E c, d \in Callers :
        /\ pc[c] = "granted"
        /\ c \in holders
        /\ pc[d] = "backoff"
        /\ d \in holders


----------------------------------------------------------------------------
(* Properties of the registry after discovery *)

\* the health check of the address at position didx has ended
Probed == dpc \in {"fetching", "sleeping"}

\* C26: the health check is best-effort: however it ends (answer, connection
\* error, timeout, HTTP error, any other exception), the step that ends it
\* records nothing and registers nothing and starts the agent card loop of the
\* same address at its first attempt with the base delay; the loop then has
\* its whole budget of 3 attempts, and whether the address is registered
\* follows from how its fetches ended, never from the health check.
C26_ProbeBestEffort ==
    /\ [][dpc = "probing" =>
            /\ probe_outcome' \in ProbeOutcomes
            /\ dpc' = "fetching"
            /\ didx' = didx
            /\ attempt' = 0
            /\ retry_delay' = card_retry_delay
            /\ UNCHANGED <<cards, remote_agent_connections, agent_url,
                           connection_results, fetch_log>>]_vars
    /\ [](/\ Probed =>
               /\ attempt = Len(fetch_log[didx]) - (IF dpc = "sleeping" THEN 1 ELSE 0)
               /\ attempt < card_max_retries
               /\ retry_delay = card_retry_delay * 2^attempt
               /\ Len(connection_results) = didx - 1
          /\ \A k \in 1..Len(connection_results) :
               /\ Len(fetch_log[k]) \in 1..card_max_retries
               /\ AllFail(fetch_log[k]) =>
                     (Len(fetch_log[k]) = card_max_retries
                        /\ connection_results[k].status \in FailureStatuses)
               /\ connection_results[k].status = "success" =>
                     fetch_log[k][Len(fetch_log[k])] = "ok")

\* The health check of the only address timed out; its agent card came with
\* the third fetch and the address is registered.
C26_Witness ==
    /\ dpc = "done"
    /\ probe_outcome = "Timeout"
    /\ fetch_log = <<<<"fail", "fail", "ok">>>>
    /\ connection_results[1].status = "success"
    /\ DOMAIN cards = {connection_results[1].agent_name}


\* the positions recorded as a success whose card has the name n
SucceededAs(n) == {k \in Succeeded : CardOf(remote_agent_addresses[k]).name = n}

\* C28: registration is keyed by the card's name and the last write wins:
\* the registry holds one card and one connection for each name served by an
\* address that succeeded, and they are the card and the address of the last
\* such address in list order, also when an earlier address served a card of
\* the same name; the summary written at the end has one entry of that name.
C28_LastWriteWins ==
    /\ DOMAIN cards = {n \in {"A", "B"} : SucceededAs(n) # {}}
    /\ DOMAIN agent_url = DOMAIN cards
    /\ remote_agent_connections = DOMAIN cards
    /\ \A n \in DOMAIN cards :
          LET k == LastSucceeded(n)
          IN /\ \A j \in SucceededAs(n) : j <= k
             /\ cards[n].name = n
             /\ cards[n].description = CardOf(remote_agent_addresses[k]).description
             /\ agent_url[n] = remote_agent_addresses[k]
             /\ dpc = "done" => Cardinality({e \in agents : e.name = n}) = 1

\* Two addresses served a card named A and both succeeded: the registry holds
\* the card and the connection of the second.
C28_Witness ==
    /\ dpc = "done"
    /\ remote_agent_addresses = <<"http://a1", "http://a2">>
    /\ Succeeded = {1, 2}
    /\ DOMAIN cards = {"A"}
    /\ cards["A"].description = "second A"
    /\ agent_url["A"] = "http://a2"


\* the entry of the summary for a card
EntryOf(card) == [name |-> card.name, description |-> card.description]

\* C30: when discovery has returned, the summary is determined by the
\* registry: the fixed no-agents text when the registry is empty, otherwise
\* one entry (name and description) for each registered card and nothing
\* else, so none for an address that failed or whose card was overwritten;
\* and the system prompt of the engine is the default prompt generated from
\* that summary.
C30_SummaryFromRegistry ==
    dpc = "done" =>
        /\ IF DOMAIN cards = {}
           THEN agents = NoAgentsFound
           ELSE /\ \A n \in DOMAIN cards : EntryOf(cards[n]) \in agents
                /\ \A e \in agents : e.name \in DOMAIN cards /\ e = EntryOf(cards[e.name])
                /\ Cardinality(agents) = Cardinality(DOMAIN cards)
        /\ \A k \in 1..Len(connection_results) :
              (k \notin Succeeded \/ k # LastSucceeded(CardOf(remote_agent_addresses[k]).name))
                  => EntryOf(CardOf(remote_agent_addresses[k])) \notin agents
        /\ system_prompt = GetDefaultSystemPrompt(agents)
        /\ system_prompt # GetDefaultSystemPrompt({})

\* Discovery returned after the first address failed and the second was
\* registered: the summary has the one entry of the second, and the prompt
\* carries it.
C30_Witness ==
    /\ dpc = "done"
    /\ remote_agent_addresses = <<"http://a1", "http://b">>
    /\ Succeeded = {2}
    /\ agents = {[name |-> "B", description |-> "B"]}
    /\ system_prompt.available_agents = agents


\* every address processed so far was recorded as a failure
NoneSucceeded == Succeeded = {}

\* C27: a discovery in which every address fails, or whose list is empty,
\* ends like any other: each address has its recorded result, the registry
\* (connections and cards) is empty and the summary is the fixed no-agents
\* text, carried by the system prompt.  The host is then usable: every
\* delegation, repeated or not, returns the agent-not-found result of the
\* name asked for, without any call to a specialist and without recording the
\* request.
C27_DegradedMode ==
    /\ (dpc # "idle" /\ NoneSucceeded) =>
          /\ remote_agent_connections = {}
          /\ cards = NoCards
          /\ agent_url = NoConnections
    /\ (dpc = "done" /\ NoneSucceeded) =>
          /\ Len(connection_results) = Len(remote_agent_addresses)
          /\ \A k \in 1..Len(connection_results) :
                connection_results[k].status \in FailureStatuses
          /\ agents = NoAgentsFound
          /\ system_prompt = GetDefaultSystemPrompt(NoAgentsFound)
          /\ completed_requests = {}
          /\ \A i \in Invokes : Entered(i) =>
                /\ ipc[i] = "done"
                /\ iresult[i] = AgentNotFound(iagent[i])
                /\ isends[i] = 0
    /\ (\E i \in Invokes : Entered(i)) => (dpc = "done" /\ NoneSucceeded)

\* Both addresses failed, one unreachable and one timing out; the same
\* delegation was then asked twice and answered not-found twice.
C27_Witness ==
    /\ dpc = "done"
    /\ Len(connection_results) = 2
    /\ connection_results[1].status = "connection_error"
    /\ connection_results[2].status = "timeout_error"
    /\ agents = NoAgentsFound
    /\ \A i \in Invokes :
          ipc[i] = "done" /\ iagent[i] = "A" /\ iresult[i] = AgentNotFound("A")


\* the registry, its summary and the prompt made from it
registryVars == <<remote_agent_connections, cards, agent_url, agents, system_prompt>>

\* C29: after discovery the registry is only read: no step of stream (gate,
\* engine events, engine failure, backoff, end) and no step of
\* _send_message_impl (duplicate, not-found, send, response, RPC failure,
\* retry) changes remote_agent_connections, cards or the summary, so a
\* specialist whose call failed is still registered.
C29_RegistryReadOnly ==
    /\ [][UNCHANGED registryVars]_vars
    /\ [](\A i \in Invokes : EndedInFailure(i) =>
            /\ iagent[i] \in remote_agent_connections
            /\ iagent[i] \in DOMAIN cards
            /\ EntryOf(cards[iagent[i]]) \in agents)

\* While the engine ran, a delegation to the registered specialist A failed
\* with an RPC error, a second identical one was answered as a duplicate, and
\* the call of stream then ended: A is registered as before.
C29_Witness ==
    /\ pc[1] = "done"
    /\ ipc[1] = "done" /\ iresult[1].kind = "send_error" /\ iagent[1] = "A"
    /\ ipc[2] = "done" /\ iresult[2] = DuplicateSentinel
    /\ remote_agent_connections = {"A", "B"}
    /\ DOMAIN cards = {"A", "B"}


----------------------------------------------------------------------------
(* Properties of the bridge across invocations *)

\* the invocations whose producer task has put into queue q or finished it
ProducersOf(q) ==
    {q_log[q][n][2] : n \in {m \in 1..Len(q_log[q]) : q_log[q][m][1] \in {"put", "finish"}}}

\* a producer task was started on queue q after finish() had been signalled
StartedAfterFinish(q) ==
    \E m, n \in 1..Len(q_log[q]) :
        m < n /\ q_log[q][m][1] = "finish" /\ q_log[q][n][1] = "task"

C31_Reused ==
    /\ squeue[1] = 1 /\ squeue[2] = 1
    /\ q_log[1] = <<<<"task", 1>>, <<"put", 1>>, <<"finish", 1>>,
                    <<"task", 2>>, <<"put", 2>>>>


----------------------------------------------------------------------------
(* Properties of one call of stream *)

\* how the call of caller c ended, read from its output and its last engine call
EndedWithOutput(c) ==
    /\ Last(outcomes[c]) = "ok"
    /\ CountKind(out[c], "exhausted") = 0
    /\ CountKind(out[c], "error") = 0
EndedExhausted(c) ==
    /\ Last(outcomes[c]) \in {"Throttling", "TooMany"}
    /\ Last(out[c]) = Chunk("exhausted", "", 3, 0)
    /\ CountKind(out[c], "exhausted") = 1
    /\ CountKind(out[c], "error") = 0
EndedWithError(c) ==
    /\ Last(outcomes[c]) \in {"AccessDenied", "Validation"}
    /\ Last(out[c]) = Chunk("error", Last(outcomes[c]), 0, 0)
    /\ CountKind(out[c], "error") = 1
    /\ CountKind(out[c], "exhausted") = 0

\* C32: whatever the engine does at each attempt (rate-limiting failure,
\* other failure, success), one call of stream calls the engine at most 4
\* times, every attempt but the last having failed by rate limiting; it ends,
\* and it ends in one of three ways and no two of them: the output of the
\* successful attempt, the final notice of the used-up retry budget, or one
\* error notice.
C32_BoundedAndTerminal ==
    /\ [](/\ calls[1] <= 4
          /\ Len(outcomes[1]) <= calls[1]
          /\ \A i \in 1..(Len(outcomes[1]) - 1) : outcomes[1][i] \in {"Throttling", "TooMany"}
          /\ pc[1] = "done" =>
                /\ Len(outcomes[1]) = calls[1]
                /\ Cardinality({w \in {"output", "exhausted", "error"} :
                      CASE w = "output" -> EndedWithOutput(1)
                        [] w = "exhausted" -> EndedExhausted(1)
                        [] OTHER -> EndedWithError(1)}) = 1)
    /\ (pc[1] = "calling" ~> pc[1] = "done")

\* The call has ended with the output of its fourth engine call, after three
\* rate-limiting failures.
C32_Witness ==
    /\ pc[1] = "done"
    /\ calls[1] = 4
    /\ Len(outcomes[1]) = 4
    /\ Last(outcomes[1]) = "ok"
    /\ EndedWithOutput(1)
    /\ CountKind(out[1], "data") > 0


\* caller c starts an engine call in this step
StartsCall(c) == calls'[c] = calls[c] + 1

\* C33: a first attempt goes: permit, then the sleep for what remains of the
\* minimum spacing (if anything remains), then the timestamp, then the
\* engine call.  The spacing sleep is entered and the timestamp written only
\* by a caller that holds a permit; the timestamp is written in the step that
\* starts an engine call and in no other, also for the call retried after a
\* backoff sleep.
C33_GateOrder ==
    /\ [](\A c \in Callers : pc[c] \in {"spacing", "calling", "backoff"} => c \in holders)
    /\ [][\A c \in Callers :
            /\ (pc'[c] = "spacing" /\ pc[c] # "spacing") =>
                  /\ pc[c] \in {"idle", "granted"}
                  /\ c \in holders'
                  /\ calls'[c] = 0
                  /\ now - last_api_call_time < MinDelayBetweenCalls
                  /\ wakeAt'[c] = last_api_call_time + MinDelayBetweenCalls
                  /\ UNCHANGED last_api_call_time
            /\ StartsCall(c) =>
                  /\ c \in holders'
                  /\ pc'[c] = "calling"
                  /\ last_api_call_time' = now
                  /\ IF calls[c] = 0
                     THEN \/ pc[c] = "spacing" /\ now >= wakeAt[c]
                          \/ /\ pc[c] \in {"idle", "granted"}
                             /\ now - last_api_call_time >= MinDelayBetweenCalls
                     ELSE pc[c] = "backoff" /\ now >= wakeAt[c]]_vars
    /\ [][last_api_call_time' # last_api_call_time =>
            \E c \in Callers : StartsCall(c)]_vars

\* The second caller got a permit at once, slept for the spacing behind the
\* first call and has then written the timestamp and called the engine.
C33_Witness ==
    /\ pc[2] = "calling"
    /\ calls[2] = 1
    /\ 2 \in holders
    /\ calls[1] = 1
    /\ last_api_call_time = StartTime + MinDelayBetweenCalls
    /\ now = last_api_call_time


\* the data payloads of the events ev of attempt a, in the engine's order:
\* the k-th event that has a "data" key carries DataChunk(a, k)
Payloads(ev, a) ==
    [k \in 1..Cardinality({i \in 1..Len(ev) : ev[i]}) |-> DataChunk(a, k)]

\* C34: when the first attempt succeeds, the output of stream is the
\* sequence of the data payloads of the engine's events, in the engine's
\* order; an event without a data payload adds nothing, and no notice and no
\* error chunk is added; the output is complete when the engine's stream ends
\* and does not change afterwards.
C34_FirstAttemptOutput ==
    /\ []((calls[1] = 1 /\ pc[1] = "calling") => out[1] = Payloads(events[1], 1))
    /\ [][(calls[1] = 1 /\ pc[1] = "calling" /\ outcomes'[1] = <<"ok">>) =>
            (pc'[1] = "done" /\ out'[1] = out[1])]_vars
    /\ [](outcomes[1] = <<"ok">> =>
            /\ pc[1] = "done" /\ calls[1] = 1 /\ waits[1] = <<>>
            /\ Len(out[1]) <= MaxStreamEvents
            /\ \A k \in 1..Len(out[1]) : out[1][k] = DataChunk(1, k))
    /\ [][pc[1] = "done" => UNCHANGED out]_vars

\* The first attempt has succeeded with two payloads: they are the output.
C34_Witness ==
    /\ pc[1] = "done"
    /\ outcomes[1] = <<"ok">>
    /\ out[1] = <<DataChunk(1, 1), DataChunk(1, 2)>>


\* o is p followed by more chunks
IsPrefix(p, o) == Len(p) <= Len(o) /\ SubSeq(o, 1, Len(p)) = p

\* what attempts 1..a of caller 1 have put into the output: for each attempt
\* its forwarded payloads, numbered from 1 again, then the notice of the
\* backoff sleep that followed it (if one did)
RECURSIVE AttemptsOutput(_)
AttemptsOutput(a) ==
    IF a = 0 THEN <<>>
    ELSE AttemptsOutput(a - 1)
            \o [k \in 1..DataCount(out[1], a) |-> DataChunk(a, k)]
            \o (IF a <= Len(waits[1]) THEN <<RetryNotice(waits[1][a], a)>> ELSE <<>>)

\* the terminal notice of the call, if it has ended with one
TerminalNotice ==
    SelectSeq(out[1], LAMBDA ch : ch.kind \in {"exhausted", "error"})

\* C35: what an attempt forwarded before it failed stays in the caller's
\* stream: the output only grows.  The retried engine call starts from its
\* first event again, so the stream is, in time order, the forwarded payloads
\* of the first attempt, the backoff notice, the forwarded payloads of the
\* second attempt from its first payload on, and so on; within the running
\* attempt the payloads forwarded are those of its events so far.
C35_AttemptsConcatenated ==
    /\ [][IsPrefix(out[1], out'[1])]_vars
    /\ [](out[1] = AttemptsOutput(calls[1]) \o TerminalNotice)
    /\ [](pc[1] = "calling" =>
            /\ DataCount(out[1], calls[1]) = Len(Payloads(events[1], calls[1]))
            /\ Len(waits[1]) = calls[1] - 1)
    /\ [][(pc[1] = "backoff" /\ pc'[1] = "calling") =>
            (events'[1] = <<>> /\ calls'[1] = calls[1] + 1 /\ out'[1] = out[1])]_vars

\* The first attempt forwarded one payload and failed by rate limiting; the
\* retried attempt forwarded its first payload again and a second one, and
\* succeeded.
C35_Witness ==
    /\ pc[1] = "done"
    /\ outcomes[1] = <<"Throttling", "ok">>
    /\ out[1] = <<DataChunk(1, 1), RetryNotice(2, 1), DataChunk(2, 1), DataChunk(2, 2)>>


----------------------------------------------------------------------------
(* The results that discovery records *)

\* the registry as a whole
registry == <<remote_agent_connections, cards, agent_url>>

\* this step records the result of the address at position didx
RecordsResult ==
    /\ Len(connection_results') = Len(connection_results) + 1
    /\ SubSeq(connection_results', 1, Len(connection_results)) = connection_results
    /\ Last(connection_results').address = remote_agent_addresses[didx]

\* C36: discovery records one result for each configured address, in the
\* order of the list, with the status success or one of the four failure
\* classes.  The result is a success exactly when the step that records it
\* registers the card of that address (and the registry changes in no other
\* step), and the retry delays of every address start from 2 s again,
\* whatever the address before it went through.
C36_OneResultPerAddress ==
    /\ [](/\ InListOrder
          /\ \A k \in 1..Len(connection_results) :
                /\ connection_results[k].status \in {"success"} \cup FailureStatuses
                /\ connection_results[k].status = "success" =>
                      /\ connection_results[k].agent_name = CardOf(remote_agent_addresses[k]).name
                      /\ connection_results[k].agent_name \in DOMAIN cards
                /\ connection_results[k].status # "success" =>
                      /\ connection_results[k].agent_name = ""
                      /\ \A n \in DOMAIN cards : agent_url[n] # remote_agent_addresses[k]
          /\ \A k \in 1..Len(fetch_waits) :
                /\ Len(fetch_waits[k]) <= 2
                /\ \A i \in 1..Len(fetch_waits[k]) : fetch_waits[k][i] = <<2, 4>>[i]
          /\ (dpc = "fetching" /\ attempt = 0) => retry_delay = 2)
    /\ [][/\ connection_results' # connection_results => RecordsResult
          /\ (RecordsResult /\ Last(connection_results').status = "success") =>
                LET card == CardOf(remote_agent_addresses[didx])
                IN /\ card.name \in remote_agent_connections'
                   /\ cards'[card.name] = card
                   /\ agent_url'[card.name] = remote_agent_addresses[didx]
          /\ registry' # registry =>
                (RecordsResult /\ Last(connection_results').status = "success")]_vars

\* The first address failed three times after sleeps of 2 s and 4 s; the
\* second failed once, slept 2 s again and was registered: two results, a
\* failure and a success, in list order.
C36_Witness ==
    /\ dpc = "done"
    /\ Len(connection_results) = 2
    /\ fetch_log = <<<<"fail", "fail", "fail">>, <<"fail", "ok">>>>
    /\ fetch_waits = <<<<2, 4>>, <<2>>>>
    /\ connection_results[1].status = "timeout_error"
    /\ connection_results[2].status = "success"
    /\ connection_results[2].agent_name \in DOMAIN cards

----------------------------------------------------------------------------
(* Claims about the agent of module 2 *)

TsTextHas(e, needle) == Contains(Lower(TsErrText(e)), needle)
TsTextThrottled(e) ==
    TsTextHas(e, Needle_throttling) \/ TsTextHas(e, Needle_too_many_requests)
TsTextTerminal(e) ==
    \/ TsTextHas(e, Needle_validation)
    \/ TsTextHas(e, Needle_permission)
    \/ TsTextHas(e, Needle_access)
TsFailed == Len(ts_outcomes') = Len(ts_outcomes) + 1 /\ ts_outcomes'[Len(ts_outcomes')] # "ok"
TsLastOut == ts_out[Len(ts_out)]

\* C37: an engine failure whose text names validation, permission or access,
\* and not throttling, adds exactly one error chunk carrying the error and
\* ends the stream: no further engine call, no wait.  A failure whose text
\* also names throttling is handled as throttling: a rate-limit notice and a
\* wait before the third failure, the rate-limit error chunk at the third.
C37_TerminalClasses ==
    [][TsFailed =>
        LET e == ts_outcomes'[Len(ts_outcomes')] IN
        /\ (TsTextTerminal(e) /\ ~TsTextThrottled(e)) =>
              /\ ts_pc' = "done"
              /\ \E c \in {Chunk(k, e, 0, 0) : k \in {"validation_error", "permission_error"}} :
                    ts_out' = Append(ts_out, c)
              /\ ts_waits' = ts_waits
              /\ ts_calls' = ts_calls
        /\ TsTextThrottled(e) =>
              IF Len(ts_outcomes') < ts_max_retries
              THEN /\ ts_pc' = "sleeping"
                   /\ ts_out' = Append(ts_out, Chunk("rate_wait", "", ts_retry_delay,
                                                     Len(ts_outcomes')))
                   /\ Len(ts_waits') = Len(ts_waits) + 1
              ELSE /\ ts_pc' = "done"
                   /\ ts_out' = Append(ts_out, Chunk("rate_final", "", 0, 0))
                   /\ ts_waits' = ts_waits]_vars

\* a text naming throttling and validation was retried, then a validation
\* failure ended the stream at the second engine call
C37_Witness ==
    /\ ts_pc = "done"
    /\ ts_outcomes = <<"ThrottledValidation", "Validation">>
    /\ ts_calls = 2
    /\ TsLastOut.kind = "validation_error"

TsRetried(e) == TsClass(e) \in {"throttling", "other"}
TsFailures == {i \in 1..Len(ts_outcomes) : ts_outcomes[i] # "ok"}
TsFinalKinds == {"rate_final", "error_after"}
TsTerminalKinds == {"validation_error", "permission_error"}
TsErrorChunks == {i \in 1..Len(ts_out) : ts_out[i].kind \in TsFinalKinds \cup TsTerminalKinds}

\* C38 as stated: a finished stream ended with the successful output or with
\* one final error chunk after the third failure
C38_AsStated ==
    ts_pc = "done" =>
        \/ ts_outcomes[Len(ts_outcomes)] = "ok" /\ TsErrorChunks = {}
        \/ /\ Cardinality(TsFailures) = ts_max_retries
           /\ TsErrorChunks = {Len(ts_out)}

TsBounded ==
    /\ ts_calls <= ts_max_retries
    /\ Len(ts_outcomes) <= ts_calls
    /\ IsPrefix(ts_waits, <<20, 30>>)
    /\ Len(ts_waits) = (IF ts_pc = "idle" THEN 0 ELSE ts_calls - 1)
                       + (IF ts_pc = "sleeping" THEN 1 ELSE 0)
    /\ \A i \in 1..Len(ts_waits) : TsRetried(ts_outcomes[i])

TsEnded ==
    ts_pc = "done" =>
        \/ ts_outcomes[Len(ts_outcomes)] = "ok" /\ TsErrorChunks = {}
        \/ /\ Cardinality(TsFailures) = ts_max_retries
           /\ TsErrorChunks = {Len(ts_out)}
           /\ TsLastOut.kind \in TsFinalKinds
        \/ /\ Len(ts_outcomes) <= ts_max_retries
           /\ ~TsRetried(ts_outcomes[Len(ts_outcomes)])
           /\ TsErrorChunks = {Len(ts_out)}
           /\ TsLastOut.kind \in TsTerminalKinds

\* C38: the engine is invoked at most 3 times; the waits are 2.0 s and then
\* 3.0 s, taken after throttling and after unclassified failures alike; every
\* call of stream ends, and it ends in one of three ways: with the successful
\* output, with one final error chunk after the third failure, or with one
\* validation or permission error chunk after the first failure of that
\* class, whichever attempt it is.
C38_BoundedAndEnds ==
    /\ [](TsBounded /\ TsEnded)
    /\ <>(ts_pc = "done")

\* two waits, after one throttling and one unclassified failure, and a final
\* error chunk after the third failure
C38_Witness ==
    /\ ts_pc = "done"
    /\ ts_outcomes = <<"Throttling", "TimedOut", "TimedOut">>
    /\ ts_waits = <<20, 30>>
    /\ TsLastOut = Chunk("error_after", "TimedOut", ts_max_retries, 0)

----------------------------------------------------------------------------
(* Claims about the specialist agents *)

\* the data chunks forwarded so far, in the engine's order
SpForwarded == Payloads(sp_events, sp_calls)

\* C39: a query to a specialist agent starts the engine exactly once.  When
\* the engine raises, whatever the error, the stream holds the chunks
\* forwarded so far followed by exactly one error chunk naming the error, and
\* it has ended: no engine call follows and nothing is raised.  When the
\* engine ends normally the stream holds the forwarded chunks alone.
C39_SingleAttempt ==
    /\ sp_calls <= 1
    /\ sp_pc \in {"idle", "calling", "done"}
    /\ sp_pc # "idle" => sp_calls = 1 /\ sp_agent \in Specialists
    /\ sp_pc = "calling" => sp_out = SpForwarded /\ sp_outcome = "none"
    /\ sp_pc = "done" =>
          /\ sp_outcome # "none"
          /\ sp_out = IF sp_outcome = "ok" THEN SpForwarded
                      ELSE SpForwarded \o <<ErrorNotice(sp_outcome)>>
          /\ ~ENABLED \E a \in Specialists : SpStreamEnter(a)

\* a throttling error after one forwarded chunk: the chunk, then the error
C39_Witness ==
    /\ sp_pc = "done"
    /\ sp_outcome = "Throttling"
    /\ sp_events = <<FALSE, TRUE>>
    /\ Len(sp_out) = 2
    /\ sp_out[2] = ErrorNotice("Throttling")

----------------------------------------------------------------------------
(* Claims about the tool detector *)

DetPollsBefore == SubSeq(det_polls, 1, Len(det_polls) - 1)
DetLastPoll == det_polls[Len(det_polls)]
DetAllRunning(polls) == \A i \in 1..Len(polls) : polls[i] = "Running"

DetPollOutcome ==
    /\ Len(det_polls) <= poll_max_attempts
    /\ det_how = "complete" =>
          /\ DetLastPoll = "Complete" /\ DetAllRunning(DetPollsBefore)
          /\ det_return = ParseRows(det_results)
    /\ det_how = "failed" =>
          /\ DetLastPoll = "Failed" /\ DetAllRunning(DetPollsBefore)
          /\ det_return = <<>>
    /\ det_how = "poll_raised" =>
          /\ DetLastPoll = "raised" /\ DetAllRunning(DetPollsBefore)
          /\ det_return = <<>>
    /\ det_how = "exhausted" =>
          /\ Len(det_polls) = poll_max_attempts /\ DetAllRunning(det_polls)
          /\ det_return = <<>>
    /\ (det_polls # <<>> /\ det_pc = "done") =>
          det_how \in {"complete", "failed", "poll_raised", "exhausted"}

DetFallback ==
    /\ det_layers \in {<<>>, <<1>>, <<1, 2>>, <<1, 2, 3>>}
    /\ Len(det_layers) >= 2 => 1 \in det_raised /\ det_polls = <<>>
    /\ Len(det_layers) >= 3 => 2 \in det_raised
    /\ det_polls # <<>> => det_layers = <<1>> /\ det_raised = {}

\* C40: the query is polled at most 30 times and the polling always ends.
\* It returns the parsed rows at the first poll whose status is Complete, and
\* the empty list, without raising, when the status is Failed, when a poll
\* raises, or when 30 polls have passed without completion.  Layer 2 is
\* entered only when layer 1 raised and layer 3 only when layer 2 raised; no
\* outcome of the polling makes detection fall back.
C40_PollingBoundedAndFallback ==
    /\ [](DetPollOutcome /\ DetFallback)
    /\ <>(det_pc = "done")

\* 30 polls passed without completion: the empty list, from layer 1
C40_Witness ==
    /\ det_pc = "done"
    /\ det_how = "exhausted"
    /\ Len(det_polls) = poll_max_attempts
    /\ det_return = <<>>
    /\ det_layers = <<1>>

====
